---- MODULE Spec2Model ----
(***************************************************************************)
(* Native-Recorder-NodeJS: the capture engines and the N-API controller.   *)
(*                                                                         *)
(*   Spec        caller -> AudioController -> WASAPIEngine, with the       *)
(*               producer thread WASAPIEngine::RecordingThread             *)
(*   FairSpec    Spec with the scheduling of the producer thread and of    *)
(*               the blocked join stated as weak fairness                  *)
(*   SpecBridge  Spec with the JavaScript thread draining the queue of     *)
(*               the thread-safe function into the recorder's events       *)
(*   SpecCapture Spec on hosts of every mix format, with packets of        *)
(*               varied content, silence flag and frame count              *)
(*   SpecMac     caller -> AVFEngine (AVCaptureSession microphone path     *)
(*               and SCKAudioCapture system-audio path with its            *)
(*               asynchronous continuations on the capture queue)          *)
(*   SpecSck     the system-audio path of SpecMac with sample buffers of   *)
(*               varied layout, frame count and content                    *)
(*   SpecRecorder Spec driven through AudioRecorder.start / stop of        *)
(*               index.ts, with every kind of RecordingConfig              *)
(*   SpecEvents  AudioRecorder.start / stop on a microphone with the       *)
(*               JavaScript thread emitting the queued events              *)
(*   SpecMacBridge AudioController stop and destruction over a started     *)
(*               system-audio capture of the macOS engine                  *)
(*   SpecQuery   Spec with the device and permission queries called        *)
(*               beside the session                                        *)
(*   SpecDevices the device queries on machines of every set of endpoints  *)
(*                                                                         *)
(* Callbacks are identified by the number of the Start call that passed    *)
(* them (cb n = the pair handed to the n-th Start); 0 is an empty          *)
(* std::function / nil.                                                    *)
(***************************************************************************)
EXTENDS Integers, Sequences, FiniteSets, TLC

\* ------------------------------------------------------------------ bounds
\* number of Start calls the caller issues
MaxStarts == 2
\* number of Stop calls the caller issues
MaxStops == 2
\* number of packets / sample buffers the OS produces
MaxPackets == 2
\* largest frame count of a packet / sample buffer on a varied host
MaxFrames == 2
\* number of devices of one flow a machine has
MaxEndpoints == 2

\* --------------------------------------------------------------- constants
DEVICE_TYPE_INPUT == "input"
DEVICE_TYPE_OUTPUT == "output"
SYSTEM_AUDIO_DEVICE_ID == "system"

DeviceTypes == {DEVICE_TYPE_INPUT, DEVICE_TYPE_OUTPUT}

\* the endpoints IMMDeviceEnumerator::GetDevice resolves on the modelled host
WinEndpoints == {"m1", "o1"}
\* the device ids a caller passes to Start on Windows
WinDeviceIds == WinEndpoints \cup {"nonexistent"}
\* the data flow of an endpoint: "m1" is a capture endpoint, "o1" a render one
EndpointType(id) == IF id = "m1" THEN DEVICE_TYPE_INPUT ELSE DEVICE_TYPE_OUTPUT

\* the microphones AVCaptureDevice deviceWithUniqueID: resolves
MacMicrophones == {"m1"}
\* the device ids a caller passes to Start on macOS
MacDeviceIds == MacMicrophones \cup {"nonexistent", SYSTEM_AUDIO_DEVICE_ID}

\* ------------------------------------------------------ float32 arithmetic
\* A float32 value is kept exactly as (-1)^neg * m / 2^e, with a mantissa m of
\* at most 24 bits (m = 2^24 stands for the next power of two).
F32(neg, m, e) == [neg |-> neg, m |-> m, e |-> e]
Zero32 == F32(FALSE, 0, 0)

Abs(x) == IF x < 0 THEN -x ELSE x
Pow2(k) == 2 ^ k

RECURSIVE BitLen(_)
BitLen(x) == IF x = 0 THEN 0 ELSE 1 + BitLen(x \div 2)

\* the float32 nearest to the integer hi * 4096 + lo (round to nearest, ties
\* to even), as m * 2^shift; integers below 2^24 are exact
RoundToFloat32(hi, lo) ==
  IF hi < 4096
  THEN [m |-> hi * 4096 + lo, shift |-> 0]
  ELSE LET s == BitLen(hi) - 12
           q == IF s <= 12
                THEN hi * Pow2(12 - s) + (lo \div Pow2(s))
                ELSE hi \div Pow2(s - 12)
           r == IF s <= 12
                THEN lo % Pow2(s)
                ELSE (hi % Pow2(s - 12)) * 4096 + lo
           up == r > Pow2(s - 1) \/ (r = Pow2(s - 1) /\ q % 2 = 1)
       IN  [m |-> IF up THEN q + 1 ELSE q, shift |-> s]

\* the factor of the int16 quantization
INT16_SCALE == 32767

\* a quantizer that scales by 32768
MulScale_32768(x) ==
  LET p == RoundToFloat32((x.m \div 4096) * 32768 + (((x.m % 4096) * 32768) \div 4096),
                          ((x.m % 4096) * 32768) % 4096)
  IN  [neg |-> x.neg, m |-> p.m, shift |-> p.shift, e |-> x.e]

\* sample * 32767.0f: the float32 product, as (-1)^neg * m * 2^shift / 2^e
MulScale(x) ==
  LET h == (x.m \div 4096) * INT16_SCALE
      l == (x.m % 4096) * INT16_SCALE
      p == RoundToFloat32(h + (l \div 4096), l % 4096)
  IN  [neg |-> x.neg, m |-> p.m, shift |-> p.shift, e |-> x.e]

\* a quantizer without the clamp
Clip_None(x) == x

\* if (sample > 1.0f) sample = 1.0f; if (sample < -1.0f) sample = -1.0f;
Clip(x) == IF x.e <= 24 /\ x.m > Pow2(x.e) THEN F32(x.neg, 1, 0) ELSE x

\* (int16_t)f for |f| <= 32767: the fraction is discarded
TruncToInt16(p) ==
  LET mag == IF p.shift >= p.e THEN p.m * Pow2(p.shift - p.e)
             ELSE IF p.e - p.shift > 24 THEN 0
             ELSE p.m \div Pow2(p.e - p.shift)
  IN  IF p.neg THEN -mag ELSE mag

\* the clamp and pcmData.push_back((int16_t)(sample * 32767.0f))
Quantize(x) == TruncToInt16(MulScale(Clip(x)))

\* pcmData[i] / 32768.0f
Pcm16ToFloat(v) == F32(v < 0, Abs(v), 15)

\* the three bytes of a 24-bit sample, sign bit wrongly taken from no byte
Pcm24ToFloat_Unsigned(b) == F32(FALSE, b[1] + 256 * b[2] + 65536 * b[3], 24)

\* int32_t sample = (ptr[0] << 8) | (ptr[1] << 16) | (ptr[2] << 24);
\* sample / 2147483648.0f.  The bytes fill bits 8..31 of the int32: it is 256
\* times the two's-complement 24-bit number w, which float32 holds exactly.
Pcm24ToFloat(b) ==
  LET u == b[1] + 256 * b[2] + 65536 * b[3]
      w == IF b[3] >= 128 THEN u - 16777216 ELSE u
  IN  F32(w < 0, Abs(w), 23)

\* ptr[i] / 2147483648.0f for an int32 of sign v.neg and magnitude
\* v.hi * 4096 + v.lo: the conversion to float32 rounds to 24 bits
Pcm32ToFloat(v) ==
  LET r == RoundToFloat32(v.hi, v.lo)
  IN  F32(v.neg, r.m, 31 - r.shift)

\* ------------------------------------------------------------ mix formats
WAVE_FORMAT_PCM == "WAVE_FORMAT_PCM"
WAVE_FORMAT_IEEE_FLOAT == "WAVE_FORMAT_IEEE_FLOAT"
WAVE_FORMAT_EXTENSIBLE == "WAVE_FORMAT_EXTENSIBLE"
KSDATAFORMAT_SUBTYPE_IEEE_FLOAT == "KSDATAFORMAT_SUBTYPE_IEEE_FLOAT"
KSDATAFORMAT_SUBTYPE_PCM == "KSDATAFORMAT_SUBTYPE_PCM"

WaveFormat(tag, sub, bits, channels) ==
  [wFormatTag |-> tag, SubFormat |-> sub, wBitsPerSample |-> bits,
   nChannels |-> channels]

NoFormat == WaveFormat("", "", 0, 0)

\* the mix formats GetMixFormat reports on the modelled hosts
MixFormats ==
  {WaveFormat(WAVE_FORMAT_IEEE_FLOAT, "", 32, c) : c \in 1..2}
    \cup {WaveFormat(WAVE_FORMAT_EXTENSIBLE, KSDATAFORMAT_SUBTYPE_IEEE_FLOAT, 32, c) :
            c \in 1..2}
    \cup {WaveFormat(WAVE_FORMAT_EXTENSIBLE, KSDATAFORMAT_SUBTYPE_PCM, b, c) :
            b \in {16, 24}, c \in 1..2}
    \cup {WaveFormat(WAVE_FORMAT_PCM, "", b, c) : b \in {8, 16, 24, 32}, c \in 1..2}

\* bool isFloat of the capture loop
IsFloatFormat(fmt) ==
  IF fmt.wFormatTag = WAVE_FORMAT_EXTENSIBLE
  THEN fmt.SubFormat = KSDATAFORMAT_SUBTYPE_IEEE_FLOAT
  ELSE fmt.wFormatTag = WAVE_FORMAT_IEEE_FLOAT

\* the float32 samples a device produces: 0, +-1, +-2, fractions, and the
\* largest float32 below 1
FloatSignal ==
  <<Zero32, F32(FALSE, 1, 0), F32(TRUE, 1, 0), F32(FALSE, 2, 0), F32(TRUE, 2, 0),
    F32(FALSE, 1, 1), F32(TRUE, 1, 2), F32(FALSE, 3, 2), F32(FALSE, 16777215, 24)>>
\* 16-bit samples
Pcm16Signal == <<0, 1, -1, 32767, -32768, 16384, -3>>
\* 24-bit samples, least significant byte first
Pcm24Signal ==
  <<(<<0, 0, 128>>), (<<255, 255, 127>>), (<<0, 0, 0>>), (<<255, 255, 255>>),
    (<<1, 0, 128>>), (<<0, 0, 64>>), (<<0, 128, 255>>)>>
\* 32-bit samples as sign and magnitude hi * 4096 + lo
Pcm32Signal ==
  <<[neg |-> TRUE, hi |-> 524288, lo |-> 0], [neg |-> FALSE, hi |-> 524287, lo |-> 4095],
    [neg |-> FALSE, hi |-> 0, lo |-> 0], [neg |-> TRUE, hi |-> 0, lo |-> 1],
    [neg |-> FALSE, hi |-> 262144, lo |-> 1], [neg |-> TRUE, hi |-> 131072, lo |-> 0]>>
\* 8-bit samples
Pcm8Signal == <<0, 128, 255>>

\* the samples an endpoint of the given mix format produces
SignalFor(fmt) ==
  IF IsFloatFormat(fmt) THEN FloatSignal
  ELSE IF fmt.wBitsPerSample = 16 THEN Pcm16Signal
  ELSE IF fmt.wBitsPerSample = 24 THEN Pcm24Signal
  ELSE IF fmt.wBitsPerSample = 32 THEN Pcm32Signal
  ELSE Pcm8Signal

\* n consecutive samples of a signal, from position off on (cyclically)
Samples(signal, off, n) ==
  [i \in 1..n |-> signal[((off + i - 2) % Len(signal)) + 1]]

\* ------------------------------------------- ScreenCaptureKit sample buffers
\* a CMSampleBuffer handed to the stream output: its media type, its
\* AudioStreamBasicDescription (asbd FALSE: none), whether the buffer list /
\* data pointer can be obtained (ok), and its audio: one plane of numFrames
\* float32 per channel in mBuffers, or the interleaved block in data
SampleBuffer(type, asbd, nonInterleaved, isFloat, bits, channels, ok, numFrames, mBuffers, data, totalLength) ==
  [type |-> type, asbd |-> asbd, isNonInterleaved |-> nonInterleaved,
   isFloat |-> isFloat, mBitsPerChannel |-> bits, mChannelsPerFrame |-> channels,
   ok |-> ok, numFrames |-> numFrames, mBuffers |-> mBuffers, data |-> data,
   totalLength |-> totalLength]

\* planar float32: channel k holds numFrames samples of the signal
PlanarFloat(channels, numFrames, off) ==
  SampleBuffer("audio", TRUE, TRUE, TRUE, 32, channels, TRUE, numFrames,
               [k \in 1..channels |-> Samples(FloatSignal, off + 3 * (k - 1), numFrames)],
               <<>>, 0)

\* interleaved float32: a block of n floats and tail further bytes
InterleavedFloat(channels, n, off, tail) ==
  SampleBuffer("audio", TRUE, FALSE, TRUE, 32, channels, TRUE, n \div channels,
               <<>>, Samples(FloatSignal, off, n), 4 * n + tail)

\* 16-bit integer audio, planar or interleaved
IntegerAudio(nonInterleaved) ==
  SampleBuffer("audio", TRUE, nonInterleaved, FALSE, 16, 2, TRUE, 1, <<>>, <<>>, 4)

\* the sample buffers an SCStream delivers on a plain host
PlainSckBuffers == {PlanarFloat(2, 1, 6), IntegerAudio(TRUE)}

\* the sample buffers an SCStream delivers on a varied host
SckBuffers ==
  {PlanarFloat(c, n, off) : c \in 1..2, n \in 0..MaxFrames, off \in 1..Len(FloatSignal)}
    \cup {InterleavedFloat(c, n, off, tail) :
            c \in 1..2, n \in 0..MaxFrames, off \in {1, 4}, tail \in {0, 2}}
    \cup {IntegerAudio(ni) : ni \in BOOLEAN}
    \cup {SampleBuffer("screen", TRUE, TRUE, TRUE, 32, 2, TRUE, 1, <<>>, <<>>, 0),
          SampleBuffer("audio", FALSE, TRUE, TRUE, 32, 2, TRUE, 1, <<>>, <<>>, 0),
          SampleBuffer("audio", TRUE, TRUE, TRUE, 32, 2, FALSE, 1, <<>>, <<>>, 0),
          SampleBuffer("audio", TRUE, FALSE, TRUE, 32, 2, FALSE, 1, <<>>, <<>>, 0)}

\* the sample buffers of the microphone session: block buffer obtained or
\* not, and its length in bytes
PlainAvfBuffers == {[ok |-> TRUE, totalLength |-> 4], [ok |-> FALSE, totalLength |-> 0]}

\* ------------------------------------------------------------------- hosts
\* The machine the program runs on: the mix format of its endpoints, whether
\* its packets and sample buffers are plain (one kind) or varied, and the
\* microphone authorization.
HostOf(fmt, variety, micPermission) ==
  [mixFormat |-> fmt, variety |-> variety, micPermission |-> micPermission]

PlainHost == HostOf(WaveFormat(WAVE_FORMAT_IEEE_FLOAT, "", 32, 2), "plain", TRUE)

\* Windows hosts of every mix format, with packets of every kind
VariedWinHosts == {HostOf(f, "varied", TRUE) : f \in MixFormats}

\* macOS hosts with the microphone authorized or denied
MacHosts == {HostOf(PlainHost.mixFormat, "plain", p) : p \in BOOLEAN}

\* a macOS host whose streams deliver sample buffers of every kind
VariedSckHost == HostOf(PlainHost.mixFormat, "varied", TRUE)

\* the samples, silence flags and frame counts of the packets of host h
HostSignal(h) == IF h.variety = "plain" THEN <<F32(FALSE, 1, 1)>> ELSE SignalFor(h.mixFormat)
HostSilent(h) == IF h.variety = "plain" THEN {FALSE} ELSE BOOLEAN
HostFrames(h) == IF h.variety = "plain" THEN 0..1 ELSE 0..MaxFrames
\* the sample buffers of the streams and of the microphone session of host h
HostSckBuffers(h) == IF h.variety = "plain" THEN PlainSckBuffers ELSE SckBuffers
HostAvfBuffers(h) == PlainAvfBuffers

\* ------------------------------------------------------ the device tables
\* Device ids are kept as sequences of character codes. An endpoint id of
\* Windows is a wide string of ASCII characters; the id "m1" is <<109, 49>>,
\* "o1" is <<111, 49>>, <<120>> is an id no device has.
\* the UTF-8 bytes of AudioEngine::SYSTEM_AUDIO_DEVICE_ID
SystemIdBytes == <<115, 121, 115, 116, 101, 109>>

\* std::string(wsId.begin(), wsId.end()): every wchar_t is cut to a char
NarrowId(wsId) == [i \in 1..Len(wsId) |-> wsId[i] % 256]
\* std::wstring(deviceId.begin(), deviceId.end()): every char (signed on
\* Windows) is converted to a 16-bit wchar_t
WidenId(deviceId) ==
  [i \in 1..Len(deviceId) |-> IF deviceId[i] >= 128 THEN deviceId[i] + 65280 ELSE deviceId[i]]

\* The devices a flow can hold. A device has its id (the letter of the flow
\* and a digit), its friendly name (kept as the number of the device), its
\* state, whether GetId succeeds on it, and its native format (WAVEFORMATEX /
\* WAVEFORMATEXTENSIBLE on Windows, AudioStreamBasicDescription on macOS;
\* ok = FALSE: it cannot be read). Each device is active, active with a
\* failing GetId, active with an unreadable format, or unplugged.
DeviceKinds(letter) ==
  LET formats ==
        <<[nSamplesPerSec |-> 48000, nChannels |-> 2, wBitsPerSample |-> 32,
           extensible |-> TRUE, wValidBitsPerSample |-> 32],
          [nSamplesPerSec |-> 44100, nChannels |-> 1, wBitsPerSample |-> 32,
           extensible |-> TRUE, wValidBitsPerSample |-> 24],
          [nSamplesPerSec |-> 96000, nChannels |-> 2, wBitsPerSample |-> 16,
           extensible |-> FALSE, wValidBitsPerSample |-> 0],
          [nSamplesPerSec |-> 48000, nChannels |-> 2, wBitsPerSample |-> 32,
           extensible |-> TRUE, wValidBitsPerSample |-> 0]>>
      kinds == {<<"active", TRUE, TRUE>>, <<"active", FALSE, TRUE>>,
                <<"active", TRUE, FALSE>>, <<"unplugged", TRUE, TRUE>>}
  IN  {[id |-> <<letter, 48 + k>>, name |-> k, state |-> s[1], idOk |-> s[2],
        format |-> [ok |-> s[3]] @@ formats[((k - 1) % Len(formats)) + 1]] :
         k \in 1..MaxEndpoints, s \in kinds}

\* the flows a machine can have: a list of at most MaxEndpoints devices with
\* distinct ids, and the id of its default device (an active device of the
\* list, or <<>>: there is none)
FlowsOf(letter) ==
  LET lists == {l \in UNION {[1..n -> DeviceKinds(letter)] : n \in 0..MaxEndpoints} :
                  \A i, j \in 1..Len(l) : i # j => l[i].id # l[j].id}
  IN  UNION {{[list |-> l, default |-> d] :
                d \in {<<>>} \cup {l[i].id : i \in {j \in 1..Len(l) : l[j].state = "active"}}} :
               l \in lists}

\* The devices of a machine: os ("windows" | "macos"), available (the
\* IMMDeviceEnumerator was created / macOS is 13.0 or later), the capture and
\* the render devices in the order the OS lists them, and the id of the
\* default device of each flow. The machine of the session specifications
\* has one microphone and one speaker.
PlainDevices ==
  LET plain(letter) == CHOOSE d \in DeviceKinds(letter) :
                         d.name = 1 /\ d.state = "active" /\ d.idOk /\ d.format.ok
  IN  [os |-> "windows", available |-> TRUE,
       inputs |-> <<plain(109)>>, outputs |-> <<plain(111)>>,
       defaultInput |-> <<109, 49>>, defaultOutput |-> <<111, 49>>]

\* Windows machines: every capture flow beside the plain render flow, every
\* render flow beside the plain capture flow, and a machine whose enumerator
\* could not be created. macOS machines: the microphones of the discovery
\* session and the default audio device; the only output is system audio,
\* offered from macOS 13.0.
DeviceTables ==
  {[PlainDevices EXCEPT !.inputs = f.list, !.defaultInput = f.default] : f \in FlowsOf(109)}
  \cup {[PlainDevices EXCEPT !.outputs = f.list, !.defaultOutput = f.default] :
          f \in FlowsOf(111)}
  \cup {[PlainDevices EXCEPT !.available = FALSE]}
  \cup {[os |-> "macos", available |-> a, inputs |-> f.list, outputs |-> <<>>,
         defaultInput |-> f.default, defaultOutput |-> <<>>] :
          a \in BOOLEAN,
          f \in {g \in FlowsOf(109) :
                   \A i \in 1..Len(g.list) : g.list[i].state = "active" /\ g.list[i].idOk}}

\* ---------------------------------------------------------- AudioDevice
AudioDevice(id, name, type, isDefault) ==
  [id |-> id, name |-> name, type |-> type, isDefault |-> isDefault]

\* AudioFormat; {0, 0, 0, 0} is what a failed query returns
AudioFormat(sampleRate, channels, bitDepth, rawBitDepth) ==
  [sampleRate |-> sampleRate, channels |-> channels, bitDepth |-> bitDepth,
   rawBitDepth |-> rawBitDepth]

\* ------------------------------------------------ WASAPIEngine GetDevices
\* an enumeration loop that pushes an endpoint whose GetId failed, with the
\* empty id it was left with
RECURSIVE EnumerateFrom_NoSkip(_, _, _, _)
EnumerateFrom_NoSkip(coll, i, type, defaultId) ==
  IF i > Len(coll) THEN <<>>
  ELSE IF coll[i].state # "active" THEN EnumerateFrom_NoSkip(coll, i + 1, type, defaultId)
  ELSE <<AudioDevice(IF coll[i].idOk THEN NarrowId(coll[i].id) ELSE <<>>,
                     coll[i].name, type,
                     coll[i].idOk /\ NarrowId(coll[i].id) = defaultId)>>
       \o EnumerateFrom_NoSkip(coll, i + 1, type, defaultId)

\* one enumeration loop over EnumAudioEndpoints(flow, DEVICE_STATE_ACTIVE):
\* only active endpoints are listed, an endpoint whose GetId fails is
\* skipped, every other one is pushed with its narrowed id and the type of
\* the flow
RECURSIVE EnumerateFrom(_, _, _, _)
EnumerateFrom(coll, i, type, defaultId) ==
  IF i > Len(coll) THEN <<>>
  ELSE IF coll[i].state # "active" \/ ~coll[i].idOk
       THEN EnumerateFrom(coll, i + 1, type, defaultId)
  ELSE <<AudioDevice(NarrowId(coll[i].id), coll[i].name, type,
                     NarrowId(coll[i].id) = defaultId)>>
       \o EnumerateFrom(coll, i + 1, type, defaultId)

\* an enumeration that marks every render endpoint as the default
WASAPIEngine_GetDevices_AllDefault(t) ==
  EnumerateFrom(t.inputs, 1, DEVICE_TYPE_INPUT, NarrowId(t.defaultInput))
  \o [i \in 1..Len(t.outputs) |->
        AudioDevice(NarrowId(t.outputs[i].id), i, DEVICE_TYPE_OUTPUT, TRUE)]

\* WASAPIEngine::GetDevices: the default ids are those of
\* GetDefaultAudioEndpoint and GetId, narrowed, empty when there is none
WASAPIEngine_GetDevices(t) ==
  IF ~t.available THEN <<>>
  ELSE EnumerateFrom(t.inputs, 1, DEVICE_TYPE_INPUT, NarrowId(t.defaultInput))
       \o EnumerateFrom(t.outputs, 1, DEVICE_TYPE_OUTPUT, NarrowId(t.defaultOutput))

\* IMMDeviceEnumerator::GetDevice(wsId): the endpoints with that id, whatever
\* their state
ResolveEndpoint(t, wsId) ==
  {d \in {t.inputs[i] : i \in 1..Len(t.inputs)} \cup {t.outputs[i] : i \in 1..Len(t.outputs)} :
     d.id = wsId}

\* WASAPIEngine::GetDeviceFormat
WASAPIEngine_GetDeviceFormat(t, deviceId) ==
  IF ~t.available THEN AudioFormat(0, 0, 0, 0)
  ELSE LET found == ResolveEndpoint(t, WidenId(deviceId))
       IN  IF found = {} THEN AudioFormat(0, 0, 0, 0)
           ELSE LET d == CHOOSE e \in found : TRUE
                    pwfx == d.format
                IN  \* Activate fails on an endpoint that is not active,
                    \* GetMixFormat when the format cannot be read
                    IF d.state # "active" \/ ~pwfx.ok THEN AudioFormat(0, 0, 0, 0)
                    ELSE AudioFormat(pwfx.nSamplesPerSec, pwfx.nChannels, 16,
                                     IF pwfx.extensible /\ pwfx.wValidBitsPerSample > 0
                                     THEN pwfx.wValidBitsPerSample
                                     ELSE pwfx.wBitsPerSample)

\* WASAPIEngine::CheckPermission with the system flag left false
WASAPIEngine_CheckPermission_MicOnly == [mic |-> TRUE, system |-> FALSE]

\* WASAPIEngine::CheckPermission
WASAPIEngine_CheckPermission == [mic |-> TRUE, system |-> TRUE]

\* WASAPIEngine::RequestPermission
WASAPIEngine_RequestPermission(type) == TRUE

\* --------------------------------------------------- AVFEngine GetDevices
\* AVFEngine::GetDevices: the microphones of the discovery session, then
\* the system-audio device
AVFEngine_GetDevices(t) ==
  [i \in 1..Len(t.inputs) |->
     AudioDevice(t.inputs[i].id, t.inputs[i].name, DEVICE_TYPE_INPUT,
                 t.defaultInput # <<>> /\ t.inputs[i].id = t.defaultInput)]
  \o (IF t.available
      THEN <<AudioDevice(SystemIdBytes, 0, DEVICE_TYPE_OUTPUT, TRUE)>>
      ELSE <<>>)

\* a format query that gives the fixed format to every id
AVFEngine_GetDeviceFormat_Fixed(t, deviceId) == AudioFormat(48000, 2, 16, 32)

\* AVFEngine::GetDeviceFormat
AVFEngine_GetDeviceFormat(t, deviceId) ==
  IF deviceId = SystemIdBytes THEN AudioFormat(48000, 2, 16, 32)
  ELSE LET found == {i \in 1..Len(t.inputs) : t.inputs[i].id = deviceId}
       IN  IF found = {} THEN AudioFormat(0, 0, 0, 0)
           ELSE LET asbd == t.inputs[CHOOSE i \in found : TRUE].format
                IN  IF asbd.ok THEN AudioFormat(48000, 2, 16, asbd.wBitsPerSample)
                    ELSE AudioFormat(0, 0, 0, 0)

\* -------------------------------------------------------- query results
\* What the last query returned to its caller. devices is the vector the
\* engine's GetDevices returned, result the array of JavaScript objects made
\* of it (a property that is not set reads "<undefined>"), format the
\* AudioFormat, permission and granted the answers of CheckPermission and
\* RequestPermission, error the message of the exception thrown; at is the
\* number of callback invocations made before the query.
NoQuery ==
  [op |-> "none", id |-> <<>>, devices |-> <<>>, result |-> <<>>,
   format |-> AudioFormat(0, 0, 0, 0), permission |-> [mic |-> FALSE, system |-> FALSE],
   granted |-> FALSE, error |-> "", at |-> 0]

\* ------------------------------------------------------- AudioRecorder
\* a validation that looks at the device type only
ConfigError_TypeOnly(cfg) ==
  IF cfg.deviceType \in {"", "<undefined>"} THEN "required"
  ELSE IF cfg.deviceType \notin DeviceTypes THEN "deviceType"
  ELSE ""

\* The validation of AudioRecorder.start: the error it throws, "" for none.
\* A property the caller left out reads "<undefined>"; !value holds for it
\* and for the empty string.
ConfigError(cfg) ==
  IF cfg.deviceType \in {"", "<undefined>"} \/ cfg.deviceId \in {"", "<undefined>"}
  THEN "required"
  ELSE IF cfg.deviceType # "input" /\ cfg.deviceType # "output" THEN "deviceType"
  ELSE ""

VARIABLES
  \* ---- WASAPIEngine fields
  isRecording,        \* the running flag
  recordingThread,    \* std::thread handle: "empty" | "running" | "finished" | "terminate"
  dataCallback,       \* stored DataCallback (0 = empty)
  errorCallback,      \* stored ErrorCallback (0 = empty)
  currentDeviceId,
  currentDeviceType,
  \* ---- locals of WASAPIEngine::RecordingThread
  tpc,                \* position of the producer thread
  comInit,            \* CoInitialize done and not yet CoUninitialize
  pwfx,               \* mix format allocated
  hEvent,             \* event handle open
  clientStarted,      \* IAudioClient::Start succeeded and Stop not yet called
  pDevice,            \* endpoint bound by GetDevice ("none" before)
  isLoopback,
  tExit,              \* why the thread left: "none" | "init" | "packet" | "stopped"
  tSession,           \* number of the Start that spawned the thread
  mixFormat,          \* *pwfx (NoFormat while pwfx is not allocated)
  \* ---- the packet / sample buffer being converted and the buffer handed on
  lastPacket,         \* Windows: frames, flag and pData of the packet held; macOS: the sample buffer
  lastBuffer,         \* the float samples and the int16 samples passed to dataCallback
  \* ---- AudioController fields
  tsfn,               \* this->tsfn: number of the thread-safe function (0 = nullptr)
  released,           \* how often each thread-safe function was Release()d
  tsfnQueue,          \* per thread-safe function: the calls queued for the JavaScript thread
  deleted,            \* per callback invocation: how often its heap copy was deleted
  \* ---- AVFEngine::Impl and SCKAudioCapture fields
  session,            \* impl->session: "nil" | "idle" | "running"
  sessOwner,          \* number of the Start that created impl->session
  sessDevice,         \* the device the session's input was created for
  delegate,           \* impl->delegate.dataCallback (0 = delegate nil)
  queue,              \* impl->queue non-nil
  sckDataCallback,    \* SCKAudioCapture.dataCallback
  sckErrorCallback,   \* SCKAudioCapture.errorCallback
  sckStream,          \* SCKAudioCapture.stream: number of the Start whose fetch created it (0 = nil)
  streamState,        \* per SCStream object: "none" | "created" | "starting" | "running" | "stopping" | "stopped"
  pendingFetch,       \* shareable-content fetches whose completion has not run yet
  \* ---- the caller and the environment
  callerPc,           \* "idle" | "joining" (blocked in recordingThread.join())
  nStarts,            \* Start calls issued so far
  nStops,             \* Stop calls issued so far
  lastOp,             \* last call that returned: "none" | "Start" | "Stop"
  osBuffers,          \* packets / sample buffers the OS can still produce
  host,               \* the machine: see HostOf
  osDevices,          \* the devices of the machine: see DeviceTable
  \* ---- observations
  calls,              \* callback invocations, in order
  emitted,            \* what the JavaScript callback of index.ts emitted, in order
  jsRecording,        \* AudioRecorder.isRecording
  startResult,        \* how the promise of the last AudioRecorder.start was settled
  stopResult,         \* the promise of the last AudioRecorder.stop: "none" | "pending" | "resolved" | "rejected"
  lastQuery,          \* what the last device or permission query returned
  startedWhileActive, \* Start numbers issued while a session was active
  startedAfterStart,  \* Start numbers issued with no Stop since the previous Start
  waitsAfterClear     \* event waits that returned after Stop cleared the flag (capped at 2)

engineVars == <<isRecording, recordingThread, dataCallback, errorCallback,
                currentDeviceId, currentDeviceType>>
threadVars == <<tpc, comInit, pwfx, hEvent, clientStarted, pDevice, isLoopback,
                tExit, tSession>>
capVars == <<mixFormat, lastPacket, lastBuffer>>
ctlVars == <<tsfn, released>>
macVars == <<session, sessOwner, sessDevice, delegate, queue, sckDataCallback,
             sckErrorCallback, sckStream, streamState, pendingFetch>>
callerVars == <<callerPc, nStarts, nStops, lastOp>>
histVars == <<startedWhileActive, startedAfterStart>>
callVars == <<calls, tsfnQueue, deleted>>
obsVars == <<callVars, histVars, waitsAfterClear>>
jsVars == <<osDevices, lastQuery, jsRecording, startResult, stopResult>>
vars == <<engineVars, threadVars, capVars, ctlVars, macVars, callerVars, osBuffers,
          host, obsVars, emitted, jsVars>>

Sessions == 1..MaxStarts

\* an on_data invocation: the callback pair invoked (cb), the session whose
\* capture source produced the buffer (src), the device, the backend (via),
\* the frame count of the packet and the length of the buffer in bytes
DataRec(via, cb, src, dev, frames, bytes) ==
  [kind |-> "data", via |-> via, cb |-> cb, src |-> src, dev |-> dev,
   frames |-> frames, bytes |-> bytes, class |-> ""]
\* an on_error invocation; class tells where it was raised, the message text
\* is not kept
ErrRec(via, cb, src, class) ==
  [kind |-> "error", via |-> via, cb |-> cb, src |-> src, dev |-> "",
   frames |-> 0, bytes |-> 0, class |-> class]

\* if (cb) cb(...): an empty std::function is skipped
Invoke(cb, rec) == IF cb # 0 THEN Append(calls, rec) ELSE calls

\* the heap copy the bridge lambda queues: new std::vector<uint8_t>(data,
\* data + size) or new std::string(errorMsg); seq numbers the invocation
HeapCopy(rec) ==
  [kind |-> rec.kind, seq |-> Len(calls) + 1, bytes |-> rec.bytes, class |-> rec.class]

\* a bridge whose queue hands the newest call to the JavaScript thread first
BlockingCall_Front(n, rec) ==
  IF n # 0 /\ released[n] = 0
  THEN [tsfnQueue EXCEPT ![n] = <<HeapCopy(rec)>> \o @]
  ELSE tsfnQueue

\* the bridge lambda of callback pair n: tsfn->BlockingCall(copy, ...) on a
\* queue without size limit (max_queue_size 0) appends and returns napi_ok; a
\* released function refuses the call and the lambda deletes the copy
BlockingCall(n, rec) ==
  IF n # 0 /\ released[n] = 0
  THEN [tsfnQueue EXCEPT ![n] = Append(@, HeapCopy(rec))]
  ELSE tsfnQueue

\* a bridge lambda that keeps the copy of a call the function refused
Deliver_KeepRefused(cb, rec) ==
  /\ calls' = Invoke(cb, rec)
  /\ tsfnQueue' = BlockingCall(cb, rec)
  /\ deleted' = IF cb = 0 THEN deleted ELSE Append(deleted, 0)

\* an engine invokes callback cb: the invocation and what the bridge lambda
\* does: it makes the copy, queues it, and on a status other than napi_ok
\* deletes it (delete dataVec / delete errorStr)
Deliver(cb, rec) ==
  /\ calls' = Invoke(cb, rec)
  /\ tsfnQueue' = BlockingCall(cb, rec)
  /\ deleted' = IF cb = 0 THEN deleted
                ELSE Append(deleted, IF BlockingCall(cb, rec) # tsfnQueue THEN 0 ELSE 1)

NoPacket == [frames |-> 0, silent |-> FALSE, pData |-> <<>>]
NoBuffer == [floats |-> <<>>, pcm |-> <<>>]

\* --------------------------------------------------------------- initial state
WinInit ==
  /\ isRecording = FALSE
  /\ recordingThread = "empty"
  /\ dataCallback = 0
  /\ errorCallback = 0
  /\ currentDeviceId = ""
  /\ currentDeviceType = ""
  /\ tpc = "none"
  /\ comInit = FALSE
  /\ pwfx = FALSE
  /\ hEvent = FALSE
  /\ clientStarted = FALSE
  /\ pDevice = "none"
  /\ isLoopback = FALSE
  /\ tExit = "none"
  /\ tSession = 0
  /\ mixFormat = NoFormat
  /\ tsfn = 0
  /\ released = [n \in Sessions |-> 0]
  /\ tsfnQueue = [n \in Sessions |-> <<>>]
  /\ deleted = <<>>

MacInit ==
  /\ session = "nil"
  /\ sessOwner = 0
  /\ sessDevice = "none"
  /\ delegate = 0
  /\ queue = FALSE
  /\ sckDataCallback = 0
  /\ sckErrorCallback = 0
  /\ sckStream = 0
  /\ streamState = [n \in Sessions |-> "none"]
  /\ pendingFetch = {}

\* the state after construction, on any host with any devices
Constructed ==
  /\ WinInit
  /\ MacInit
  /\ lastPacket = NoPacket
  /\ lastBuffer = NoBuffer
  /\ callerPc = "idle"
  /\ nStarts = 0
  /\ nStops = 0
  /\ lastOp = "none"
  /\ osBuffers = MaxPackets
  /\ calls = <<>>
  /\ emitted = <<>>
  /\ startedWhileActive = {}
  /\ startedAfterStart = {}
  /\ waitsAfterClear = 0
  /\ jsRecording = FALSE
  /\ startResult = [cfg |-> [deviceType |-> "<undefined>", deviceId |-> "<undefined>"],
                    outcome |-> "none", error |-> ""]
  /\ stopResult = "none"
  /\ lastQuery = NoQuery

Init == Constructed /\ host = PlainHost /\ osDevices = PlainDevices

\* ------------------------------------------------------------ WASAPIEngine
Joinable == recordingThread \in {"running", "finished"}

\* a Start without the isRecording guard
WASAPIEngine_Start_NoGuard(deviceType, deviceId, dataCb, errorCb) ==
  /\ dataCallback' = dataCb
  /\ errorCallback' = errorCb
  /\ currentDeviceId' = deviceId
  /\ currentDeviceType' = deviceType
  /\ isRecording' = TRUE
  /\ recordingThread' = IF Joinable THEN "terminate" ELSE "running"
  /\ tpc' = IF Joinable THEN tpc ELSE "CoInitialize"
  /\ tSession' = IF Joinable THEN tSession ELSE nStarts + 1
  /\ tExit' = IF Joinable THEN tExit ELSE "none"
  /\ UNCHANGED <<comInit, pwfx, hEvent, clientStarted, pDevice, isLoopback>>

\* WASAPIEngine::Start: the engine fields and the spawn of the producer thread
WASAPIEngine_Start(deviceType, deviceId, dataCb, errorCb) ==
  IF isRecording
  THEN UNCHANGED <<engineVars, threadVars>>
  ELSE /\ dataCallback' = dataCb
       /\ errorCallback' = errorCb
       /\ currentDeviceId' = deviceId
       /\ currentDeviceType' = deviceType
       /\ isRecording' = TRUE
       \* move-assigning over a joinable std::thread calls std::terminate
       /\ recordingThread' = IF Joinable THEN "terminate" ELSE "running"
       /\ tpc' = IF Joinable THEN tpc ELSE "CoInitialize"
       /\ tSession' = IF Joinable THEN tSession ELSE nStarts + 1
       /\ tExit' = IF Joinable THEN tExit ELSE "none"
       /\ UNCHANGED <<comInit, pwfx, hEvent, clientStarted, pDevice, isLoopback>>

\* Stop that clears the flag and returns without joining the producer thread
WASAPIEngine_Stop_NoJoin ==
  /\ isRecording' = FALSE
  /\ callerPc' = "idle"
  /\ UNCHANGED <<recordingThread, dataCallback, errorCallback,
                 currentDeviceId, currentDeviceType>>

\* WASAPIEngine::Stop up to the join: clears the flag, then blocks in join()
\* when the handle is joinable
WASAPIEngine_Stop ==
  IF isRecording
  THEN /\ isRecording' = FALSE
       /\ callerPc' = IF Joinable THEN "joining" ELSE "idle"
       /\ UNCHANGED <<recordingThread, dataCallback, errorCallback,
                      currentDeviceId, currentDeviceType>>
  ELSE /\ callerPc' = "idle"
       /\ UNCHANGED engineVars

\* a Stop that waits for the thread function to return and leaves the handle
\* joinable
WASAPIEngine_StopJoin_KeepHandle ==
  /\ recordingThread = "finished"
  /\ UNCHANGED <<recordingThread, isRecording, dataCallback, errorCallback,
                 currentDeviceId, currentDeviceType>>

\* recordingThread.join() returns once the thread function has returned
WASAPIEngine_StopJoin ==
  /\ recordingThread = "finished"
  /\ recordingThread' = "empty"
  /\ UNCHANGED <<isRecording, dataCallback, errorCallback, currentDeviceId,
                 currentDeviceType>>

\* --------------------------------------------------------- AudioController
\* Release() without resetting this->tsfn
ReleaseTsfn_KeepPointer ==
  IF tsfn # 0
  THEN /\ released' = [released EXCEPT ![tsfn] = IF @ < 2 THEN @ + 1 ELSE @]
       /\ tsfn' = tsfn
  ELSE UNCHANGED <<tsfn, released>>

\* tsfn->Release(); tsfn = nullptr, guarded by if (this->tsfn)
ReleaseTsfn ==
  IF tsfn # 0
  THEN /\ released' = [released EXCEPT ![tsfn] = @ + 1]
       /\ tsfn' = 0
  ELSE UNCHANGED <<tsfn, released>>

\* AudioController::Start: a new thread-safe function, the two lambdas that
\* capture it, and engine->Start
AudioController_Start(deviceType, deviceId) ==
  /\ callerPc = "idle"
  /\ nStarts < MaxStarts
  /\ nStarts' = nStarts + 1
  /\ tsfn' = nStarts + 1
  /\ WASAPIEngine_Start(deviceType, deviceId, nStarts + 1, nStarts + 1)
  /\ startedWhileActive' = IF isRecording
                           THEN startedWhileActive \cup {nStarts + 1}
                           ELSE startedWhileActive
  /\ startedAfterStart' = IF lastOp = "Start"
                          THEN startedAfterStart \cup {nStarts + 1}
                          ELSE startedAfterStart
  /\ lastOp' = "Start"
  /\ UNCHANGED <<released, macVars, callerPc, nStops, osBuffers, callVars,
                 waitsAfterClear>>
  /\ UNCHANGED <<host, emitted, osDevices, lastQuery, capVars>>

\* AudioController::Stop: engine->Stop(), then the release of the
\* thread-safe function once engine->Stop() has returned
AudioController_Stop ==
  /\ callerPc = "idle"
  /\ nStops < MaxStops
  /\ nStops' = nStops + 1
  /\ WASAPIEngine_Stop
  /\ IF callerPc' = "idle"
     THEN ReleaseTsfn /\ lastOp' = "Stop"
     ELSE UNCHANGED <<tsfn, released, lastOp>>
  /\ waitsAfterClear' = 0
  /\ UNCHANGED <<threadVars, macVars, nStarts, osBuffers, callVars, histVars>>
  /\ UNCHANGED <<host, emitted, osDevices, lastQuery, capVars>>

AudioController_StopReturn ==
  /\ callerPc = "joining"
  /\ WASAPIEngine_StopJoin
  /\ callerPc' = "idle"
  /\ ReleaseTsfn
  /\ lastOp' = "Stop"
  /\ UNCHANGED <<threadVars, macVars, nStarts, nStops, osBuffers, obsVars>>
  /\ UNCHANGED <<host, emitted, osDevices, lastQuery, capVars>>

\* ------------------------------------------- WASAPIEngine::RecordingThread
ThreadAt(pc) == recordingThread = "running" /\ tpc = pc

\* if (errorCallback) errorCallback(msg); break;  before the capture loop
InitFail(msg) ==
  /\ Deliver(errorCallback, ErrRec("wasapi", errorCallback, tSession, "init"))
  /\ tExit' = "init"
  /\ tpc' = "cleanup"

\* a per-packet failure that leaves the loop past pAudioClient->Stop()
PacketFail_SkipStop(msg) ==
  /\ Deliver(errorCallback, ErrRec("wasapi", errorCallback, tSession, "packet"))
  /\ tExit' = "packet"
  /\ tpc' = "cleanup"

\* a capture loop that reports a failing packet call and carries on
PacketFail_Continue(msg) ==
  /\ Deliver(errorCallback, ErrRec("wasapi", errorCallback, tSession, "packet"))
  /\ tExit' = tExit
  /\ tpc' = "loop"

\* ... break;  inside the capture loop: falls through to pAudioClient->Stop()
PacketFail(msg) ==
  /\ Deliver(errorCallback, ErrRec("wasapi", errorCallback, tSession, "packet"))
  /\ tExit' = "packet"
  /\ tpc' = "Stop"

T_CoInitialize ==
  /\ ThreadAt("CoInitialize")
  /\ comInit' = TRUE
  /\ isLoopback' = (currentDeviceType = DEVICE_TYPE_OUTPUT)
  /\ tpc' = "CoCreateInstance"
  /\ UNCHANGED <<pwfx, hEvent, clientStarted, pDevice, tExit, tSession>>
  /\ UNCHANGED <<engineVars, ctlVars, macVars, callerVars, osBuffers, obsVars>>
  /\ UNCHANGED <<host, emitted, jsVars, capVars>>

T_CoCreateInstance ==
  /\ ThreadAt("CoCreateInstance")
  /\ \E ok \in BOOLEAN :
       IF ok
       THEN tpc' = "GetDevice" /\ UNCHANGED <<callVars, tExit>>
       ELSE InitFail("Failed to create IMMDeviceEnumerator in recording thread")
  /\ UNCHANGED <<comInit, pwfx, hEvent, clientStarted, pDevice, isLoopback, tSession>>
  /\ UNCHANGED <<engineVars, ctlVars, macVars, callerVars, osBuffers,
                 histVars, waitsAfterClear>>
  /\ UNCHANGED <<host, emitted, jsVars, capVars>>

\* pEnumerator->GetDevice(id): resolves by id alone, whatever currentDeviceType
T_GetDevice ==
  /\ ThreadAt("GetDevice")
  /\ IF currentDeviceId \in WinEndpoints
     THEN tpc' = "Activate" /\ pDevice' = currentDeviceId /\ UNCHANGED <<callVars, tExit>>
     ELSE InitFail("Failed to get audio device: ") /\ UNCHANGED pDevice
  /\ UNCHANGED <<comInit, pwfx, hEvent, clientStarted, isLoopback, tSession>>
  /\ UNCHANGED <<engineVars, ctlVars, macVars, callerVars, osBuffers,
                 histVars, waitsAfterClear>>
  /\ UNCHANGED <<host, emitted, jsVars, capVars>>

T_Activate ==
  /\ ThreadAt("Activate")
  /\ \E ok \in BOOLEAN :
       IF ok
       THEN tpc' = "GetMixFormat" /\ UNCHANGED <<callVars, tExit>>
       ELSE InitFail("Failed to activate audio client")
  /\ UNCHANGED <<comInit, pwfx, hEvent, clientStarted, pDevice, isLoopback, tSession>>
  /\ UNCHANGED <<engineVars, ctlVars, macVars, callerVars, osBuffers,
                 histVars, waitsAfterClear>>
  /\ UNCHANGED <<host, emitted, jsVars, capVars>>

\* pAudioClient->GetMixFormat(&pwfx)
T_GetMixFormat ==
  /\ ThreadAt("GetMixFormat")
  /\ \E ok \in BOOLEAN :
       IF ok
       THEN /\ tpc' = "Initialize"
            /\ pwfx' = TRUE
            /\ mixFormat' = host.mixFormat
            /\ UNCHANGED <<callVars, tExit>>
       ELSE InitFail("Failed to get mix format") /\ UNCHANGED <<pwfx, mixFormat>>
  /\ UNCHANGED <<comInit, hEvent, clientStarted, pDevice, isLoopback, tSession>>
  /\ UNCHANGED <<engineVars, ctlVars, macVars, callerVars, osBuffers,
                 histVars, waitsAfterClear>>
  /\ UNCHANGED <<host, emitted, jsVars, lastPacket, lastBuffer>>

\* what IAudioClient::Initialize can answer: AUDCLNT_STREAMFLAGS_LOOPBACK on a
\* capture endpoint is refused (AUDCLNT_E_WRONG_ENDPOINT_TYPE)
InitializeResults ==
  IF isLoopback /\ EndpointType(pDevice) = DEVICE_TYPE_INPUT THEN {FALSE} ELSE BOOLEAN

\* streamFlags with AUDCLNT_STREAMFLAGS_LOOPBACK if isLoopback;
\* pAudioClient->Initialize(...)
T_Initialize ==
  /\ ThreadAt("Initialize")
  /\ \E ok \in InitializeResults :
       IF ok
       THEN tpc' = "SetEventHandle" /\ UNCHANGED <<callVars, tExit>>
       ELSE InitFail("Failed to initialize audio client")
  /\ UNCHANGED <<comInit, pwfx, hEvent, clientStarted, pDevice, isLoopback, tSession>>
  /\ UNCHANGED <<engineVars, ctlVars, macVars, callerVars, osBuffers,
                 histVars, waitsAfterClear>>
  /\ UNCHANGED <<host, emitted, jsVars, capVars>>

\* hEvent = CreateEvent(...); pAudioClient->SetEventHandle(hEvent)
T_SetEventHandle ==
  /\ ThreadAt("SetEventHandle")
  /\ hEvent' = TRUE
  /\ \E ok \in BOOLEAN :
       IF ok
       THEN tpc' = "GetService" /\ UNCHANGED <<callVars, tExit>>
       ELSE InitFail("Failed to set event handle")
  /\ UNCHANGED <<comInit, pwfx, clientStarted, pDevice, isLoopback, tSession>>
  /\ UNCHANGED <<engineVars, ctlVars, macVars, callerVars, osBuffers,
                 histVars, waitsAfterClear>>
  /\ UNCHANGED <<host, emitted, jsVars, capVars>>

\* what GetService(IID_IAudioCaptureClient) can answer: a render endpoint
\* that was not opened for loopback has no capture client
\* (AUDCLNT_E_WRONG_ENDPOINT_TYPE)
GetServiceResults ==
  IF ~isLoopback /\ EndpointType(pDevice) = DEVICE_TYPE_OUTPUT THEN {FALSE} ELSE BOOLEAN

T_GetService ==
  /\ ThreadAt("GetService")
  /\ \E ok \in GetServiceResults :
       IF ok
       THEN tpc' = "Start" /\ UNCHANGED <<callVars, tExit>>
       ELSE InitFail("Failed to get capture client")
  /\ UNCHANGED <<comInit, pwfx, hEvent, clientStarted, pDevice, isLoopback, tSession>>
  /\ UNCHANGED <<engineVars, ctlVars, macVars, callerVars, osBuffers,
                 histVars, waitsAfterClear>>
  /\ UNCHANGED <<host, emitted, jsVars, capVars>>

\* pAudioClient->Start()
T_ClientStart ==
  /\ ThreadAt("Start")
  /\ \E ok \in BOOLEAN :
       IF ok
       THEN tpc' = "loop" /\ clientStarted' = TRUE /\ UNCHANGED <<callVars, tExit>>
       ELSE InitFail("Failed to start recording") /\ UNCHANGED clientStarted
  /\ UNCHANGED <<comInit, pwfx, hEvent, pDevice, isLoopback, tSession>>
  /\ UNCHANGED <<engineVars, ctlVars, macVars, callerVars, osBuffers,
                 histVars, waitsAfterClear>>
  /\ UNCHANGED <<host, emitted, jsVars, capVars>>

\* a capture loop that never reads the running flag
T_LoopCheck_IgnoreFlag ==
  /\ ThreadAt("loop")
  /\ tpc' = "WaitForSingleObject"
  /\ UNCHANGED <<comInit, pwfx, hEvent, clientStarted, pDevice, isLoopback,
                 tExit, tSession>>
  /\ UNCHANGED <<engineVars, ctlVars, macVars, callerVars, osBuffers, obsVars>>
  /\ UNCHANGED <<host, emitted, jsVars, capVars>>

\* while (isRecording)
T_LoopCheck ==
  /\ ThreadAt("loop")
  /\ IF isRecording
     THEN tpc' = "WaitForSingleObject" /\ UNCHANGED tExit
     ELSE tpc' = "Stop" /\ tExit' = "stopped"
  /\ UNCHANGED <<comInit, pwfx, hEvent, clientStarted, pDevice, isLoopback, tSession>>
  /\ UNCHANGED <<engineVars, ctlVars, macVars, callerVars, osBuffers, obsVars>>
  /\ UNCHANGED <<host, emitted, jsVars, capVars>>

\* WaitForSingleObject(hEvent, 2000): signalled, or timeout and continue
T_WaitForSingleObject ==
  /\ ThreadAt("WaitForSingleObject")
  /\ \E signalled \in BOOLEAN :
       tpc' = IF signalled THEN "GetNextPacketSize" ELSE "loop"
  /\ waitsAfterClear' = IF ~isRecording /\ waitsAfterClear < 2
                        THEN waitsAfterClear + 1
                        ELSE waitsAfterClear
  /\ UNCHANGED <<comInit, pwfx, hEvent, clientStarted, pDevice, isLoopback,
                 tExit, tSession>>
  /\ UNCHANGED <<engineVars, ctlVars, macVars, callerVars, osBuffers, callVars,
                 histVars>>
  /\ UNCHANGED <<host, emitted, jsVars, capVars>>

\* the packet sizes GetNextPacketSize can report: 0, or 1 when a packet is due
PacketLengths == IF osBuffers > 0 THEN {0, 1} ELSE {0}

\* pCaptureClient->GetNextPacketSize(&packetLength) after the wait
T_GetNextPacketSize ==
  /\ ThreadAt("GetNextPacketSize")
  /\ \/ \E packetLength \in PacketLengths :
          /\ tpc' = IF packetLength # 0 THEN "GetBuffer" ELSE "loop"
          /\ UNCHANGED <<callVars, tExit>>
     \/ PacketFail("Failed to get next packet size")
  /\ UNCHANGED <<comInit, pwfx, hEvent, clientStarted, pDevice, isLoopback, tSession>>
  /\ UNCHANGED <<engineVars, ctlVars, macVars, callerVars, osBuffers,
                 histVars, waitsAfterClear>>
  /\ UNCHANGED <<host, emitted, jsVars, capVars>>

\* the conversion of a packet to float32: inputFloats
PacketToFloats(fmt, packet) ==
  [i \in 1..(packet.frames * fmt.nChannels) |->
     IF packet.silent THEN Zero32
     ELSE IF IsFloatFormat(fmt) THEN packet.pData[i]
     ELSE IF fmt.wBitsPerSample = 16 THEN Pcm16ToFloat(packet.pData[i])
     ELSE IF fmt.wBitsPerSample = 24 THEN Pcm24ToFloat(packet.pData[i])
     ELSE IF fmt.wBitsPerSample = 32 THEN Pcm32ToFloat(packet.pData[i])
     ELSE Zero32]

\* a conversion that hands the packet data on whatever the flags say
ConvertPacket_IgnoreSilent(fmt, packet) ==
  LET inputFloats == PacketToFloats(fmt, [packet EXCEPT !.silent = FALSE])
  IN  [floats |-> inputFloats,
       pcm |-> [i \in 1..Len(inputFloats) |-> Quantize(inputFloats[i])]]

\* inputFloats and pcmData of a packet
ConvertPacket(fmt, packet) ==
  LET inputFloats == PacketToFloats(fmt, packet)
  IN  [floats |-> inputFloats,
       pcm |-> [i \in 1..Len(inputFloats) |-> Quantize(inputFloats[i])]]

\* GetBuffer, the conversion of the packet and dataCallback(...)
T_GetBuffer ==
  /\ ThreadAt("GetBuffer")
  /\ \/ \E numFramesAvailable \in HostFrames(host), silent \in HostSilent(host),
           off \in 1..Len(HostSignal(host)) :
          LET packet == [frames |-> numFramesAvailable, silent |-> silent,
                         pData |-> Samples(HostSignal(host), off,
                                           numFramesAvailable * mixFormat.nChannels)]
              buffer == ConvertPacket(mixFormat, packet)
          IN  /\ lastPacket' = packet
              /\ IF numFramesAvailable > 0 /\ buffer.floats # <<>>
                 THEN /\ lastBuffer' = buffer
                      /\ Deliver(dataCallback,
                                 DataRec("wasapi", dataCallback, tSession, pDevice,
                                         numFramesAvailable, Len(buffer.pcm) * 2))
                 ELSE /\ lastBuffer' = NoBuffer
                      /\ UNCHANGED callVars
              /\ osBuffers' = osBuffers - 1
              /\ tpc' = "ReleaseBuffer"
              /\ UNCHANGED tExit
     \/ PacketFail("Failed to get buffer") /\ UNCHANGED <<osBuffers, lastPacket, lastBuffer>>
  /\ UNCHANGED <<comInit, pwfx, hEvent, clientStarted, pDevice, isLoopback, tSession>>
  /\ UNCHANGED <<engineVars, ctlVars, macVars, callerVars, histVars, waitsAfterClear>>
  /\ UNCHANGED <<host, emitted, jsVars, mixFormat>>

\* the vectors of the packet go out of scope; pCaptureClient->ReleaseBuffer
T_ReleaseBuffer ==
  /\ ThreadAt("ReleaseBuffer")
  /\ lastPacket' = NoPacket
  /\ lastBuffer' = NoBuffer
  /\ \E ok \in BOOLEAN :
       IF ok
       THEN tpc' = "GetNextPacketSize2" /\ UNCHANGED <<callVars, tExit>>
       ELSE PacketFail("Failed to release buffer")
  /\ UNCHANGED <<comInit, pwfx, hEvent, clientStarted, pDevice, isLoopback, tSession>>
  /\ UNCHANGED <<engineVars, ctlVars, macVars, callerVars, osBuffers,
                 histVars, waitsAfterClear>>
  /\ UNCHANGED <<host, emitted, jsVars, mixFormat>>

\* GetNextPacketSize at the end of the drain loop: while (packetLength != 0)
T_GetNextPacketSize2 ==
  /\ ThreadAt("GetNextPacketSize2")
  /\ \/ \E packetLength \in PacketLengths :
          /\ tpc' = IF packetLength # 0 THEN "GetBuffer" ELSE "loop"
          /\ UNCHANGED <<callVars, tExit>>
     \/ PacketFail("Failed to get next packet size loop")
  /\ UNCHANGED <<comInit, pwfx, hEvent, clientStarted, pDevice, isLoopback, tSession>>
  /\ UNCHANGED <<engineVars, ctlVars, macVars, callerVars, osBuffers,
                 histVars, waitsAfterClear>>
  /\ UNCHANGED <<host, emitted, jsVars, capVars>>

\* if (pAudioClient) pAudioClient->Stop();
T_ClientStop ==
  /\ ThreadAt("Stop")
  /\ clientStarted' = FALSE
  /\ tpc' = "cleanup"
  /\ UNCHANGED <<comInit, pwfx, hEvent, pDevice, isLoopback, tExit, tSession>>
  /\ UNCHANGED <<engineVars, ctlVars, macVars, callerVars, osBuffers, obsVars>>
  /\ UNCHANGED <<host, emitted, jsVars, capVars>>

\* a teardown that forgets CloseHandle(hEvent)
T_Cleanup_NoCloseHandle ==
  /\ ThreadAt("cleanup")
  /\ pwfx' = FALSE
  /\ mixFormat' = NoFormat
  /\ hEvent' = hEvent
  /\ comInit' = FALSE
  /\ pDevice' = "none"
  /\ tpc' = "done"
  /\ recordingThread' = "finished"
  /\ UNCHANGED <<clientStarted, isLoopback, tExit, tSession>>
  /\ UNCHANGED <<isRecording, dataCallback, errorCallback, currentDeviceId,
                 currentDeviceType>>
  /\ UNCHANGED <<ctlVars, macVars, callerVars, osBuffers, obsVars>>
  /\ UNCHANGED <<host, emitted, jsVars, lastPacket, lastBuffer>>

\* CoTaskMemFree(pwfx); CloseHandle(hEvent); CoUninitialize(); return
T_Cleanup ==
  /\ ThreadAt("cleanup")
  /\ pwfx' = FALSE
  /\ mixFormat' = NoFormat
  /\ hEvent' = FALSE
  /\ comInit' = FALSE
  /\ pDevice' = "none"
  /\ tpc' = "done"
  /\ recordingThread' = "finished"
  /\ UNCHANGED <<clientStarted, isLoopback, tExit, tSession>>
  /\ UNCHANGED <<isRecording, dataCallback, errorCallback, currentDeviceId,
                 currentDeviceType>>
  /\ UNCHANGED <<ctlVars, macVars, callerVars, osBuffers, obsVars>>
  /\ UNCHANGED <<host, emitted, jsVars, lastPacket, lastBuffer>>

RecordingThread ==
  \/ T_CoInitialize
  \/ T_CoCreateInstance
  \/ T_GetDevice
  \/ T_Activate
  \/ T_GetMixFormat
  \/ T_Initialize
  \/ T_SetEventHandle
  \/ T_GetService
  \/ T_ClientStart
  \/ T_LoopCheck
  \/ T_WaitForSingleObject
  \/ T_GetNextPacketSize
  \/ T_GetBuffer
  \/ T_ReleaseBuffer
  \/ T_GetNextPacketSize2
  \/ T_ClientStop
  \/ T_Cleanup

\* ------------------------------------------------------ Windows specification
Next ==
  \/ \E t \in DeviceTypes, id \in WinDeviceIds :
       AudioController_Start(t, id) /\ UNCHANGED <<jsRecording, startResult, stopResult>>
  \/ AudioController_Stop /\ UNCHANGED <<jsRecording, startResult, stopResult>>
  \/ AudioController_StopReturn /\ UNCHANGED <<jsRecording, startResult, stopResult>>
  \/ RecordingThread

Spec == Init /\ [][Next]_vars

\* the OS schedules the producer thread, and a join whose thread has returned
\* returns
FairSpec ==
  /\ Init
  /\ [][Next]_vars
  /\ WF_vars(RecordingThread)
  /\ WF_vars(AudioController_StopReturn /\ UNCHANGED <<jsRecording, startResult, stopResult>>)

\* ------------------------------------------------------- the JavaScript thread
\* a callback that leaves the recording state when it emits 'error'
JS_Dispatch_ErrorStops(n) ==
  /\ callerPc = "idle"
  /\ tsfnQueue[n] # <<>>
  /\ LET vec == Head(tsfnQueue[n])
     IN  /\ emitted' = Append(emitted, [event |-> vec.kind, cb |-> n, seq |-> vec.seq,
                                        bytes |-> vec.bytes])
         /\ jsRecording' = IF vec.kind = "error" THEN FALSE ELSE jsRecording
  /\ tsfnQueue' = [tsfnQueue EXCEPT ![n] = Tail(@)]
  /\ deleted' = [deleted EXCEPT ![Head(tsfnQueue[n]).seq] = @ + 1]
  /\ UNCHANGED <<engineVars, threadVars, capVars, ctlVars, macVars, callerVars,
                 osBuffers, host, calls, histVars, waitsAfterClear, osDevices,
                 lastQuery, startResult, stopResult>>

\* One queued call of thread-safe function n runs on the JavaScript thread:
\* the call-js lambda copies the vector into a Buffer (or builds the Error),
\* deletes the heap copy and calls the callback of AudioRecorder.start, which
\* emits 'error' for an error and 'data' for a buffer. The thread is not
\* available while it is blocked inside Stop.
JS_Dispatch(n) ==
  /\ callerPc = "idle"
  /\ tsfnQueue[n] # <<>>
  /\ LET vec == Head(tsfnQueue[n])
     IN  emitted' = Append(emitted, [event |-> vec.kind, cb |-> n, seq |-> vec.seq,
                                     bytes |-> vec.bytes])
  /\ tsfnQueue' = [tsfnQueue EXCEPT ![n] = Tail(@)]
  /\ deleted' = [deleted EXCEPT ![Head(tsfnQueue[n]).seq] = @ + 1]
  /\ UNCHANGED <<engineVars, threadVars, capVars, ctlVars, macVars, callerVars,
                 osBuffers, host, calls, histVars, waitsAfterClear, jsVars>>

BridgeNext ==
  \/ Next
  \/ \E n \in Sessions : JS_Dispatch(n)

SpecBridge == Init /\ [][BridgeNext]_vars

\* ------------------------------------------------- capture on varied hosts
CaptureInit == Constructed /\ host \in VariedWinHosts /\ osDevices = PlainDevices

CaptureNext ==
  \/ AudioController_Start(DEVICE_TYPE_INPUT, "m1") /\ UNCHANGED <<jsRecording, startResult, stopResult>>
  \/ RecordingThread

SpecCapture == CaptureInit /\ [][CaptureNext]_vars

\* ---------------------------------------------- AVFEngine / SCKAudioCapture
\* a session is active on the macOS engine: the microphone session runs, or
\* the engine holds a stream that was started
MacActive ==
  \/ session = "running"
  \/ (sckStream # 0 /\ streamState[sckStream] \in {"starting", "running"})

\* [stream stopCaptureWithCompletionHandler:nil]: asynchronous, the stop of a
\* running stream completes later
AfterStopCapture(st) ==
  IF st = "running" THEN "stopping"
  ELSE IF st \in {"created", "starting"} THEN "stopped"
  ELSE st

\* -[SCKAudioCapture stop]: the streams after if (self.stream) { stop; nil }
SCKAudioCapture_stop ==
  IF sckStream # 0
  THEN [streamState EXCEPT ![sckStream] = AfterStopCapture(@)]
  ELSE streamState

\* AVFEngine::Impl::Stop
AVFEngine_Impl_Stop ==
  /\ session' = "nil"
  /\ sessOwner' = 0
  /\ sessDevice' = "none"
  /\ streamState' = SCKAudioCapture_stop
  /\ sckStream' = 0
  /\ delegate' = 0
  /\ queue' = FALSE

\* AVFEngine::Start, output branch: only "system" is accepted, then
\* -[SCKAudioCapture startWithCallback:errorCallback:] stores the callbacks and
\* begins the asynchronous shareable-content fetch
AVFEngine_StartOutput(deviceId, n) ==
  /\ AVFEngine_Impl_Stop
  /\ IF deviceId # SYSTEM_AUDIO_DEVICE_ID
     THEN /\ Deliver(n, ErrRec("avf", n, n, "notSystem"))
          /\ UNCHANGED <<sckDataCallback, sckErrorCallback, pendingFetch>>
     ELSE /\ sckDataCallback' = n
          /\ sckErrorCallback' = n
          /\ pendingFetch' = pendingFetch \cup {n}
          /\ UNCHANGED callVars

\* how the steps after the device lookup can end: the step that fails, or
\* "none"; with the microphone authorization denied the device input is not
\* created
StartInputOutcomes ==
  IF host.micPermission
  THEN {"none", "deviceInput", "canAddInput", "canAddOutput"}
  ELSE {"deviceInput"}

\* a microphone Start whose failing steps return without errorCb
AVFEngine_StartInput_Silent(deviceId, n) ==
  /\ streamState' = SCKAudioCapture_stop
  /\ sckStream' = 0
  /\ sessOwner' = n
  /\ delegate' = n
  /\ queue' = TRUE
  /\ IF deviceId \notin MacMicrophones
     THEN /\ session' = "idle"
          /\ sessDevice' = "none"
          /\ Deliver(n, ErrRec("avf", n, n, "deviceNotFound"))
     ELSE \E failure \in StartInputOutcomes :
            /\ sessDevice' = deviceId
            /\ session' = IF failure = "none" THEN "running" ELSE "idle"
            /\ UNCHANGED callVars
  /\ UNCHANGED <<sckDataCallback, sckErrorCallback, pendingFetch>>

\* AVFEngine::Start, input branch: session, delegate and queue are created
\* before the device is looked up; each failing step reports and returns
AVFEngine_StartInput(deviceId, n) ==
  /\ streamState' = SCKAudioCapture_stop
  /\ sckStream' = 0
  /\ sessOwner' = n
  /\ delegate' = n
  /\ queue' = TRUE
  /\ IF deviceId \notin MacMicrophones
     THEN /\ session' = "idle"
          /\ sessDevice' = "none"
          /\ Deliver(n, ErrRec("avf", n, n, "deviceNotFound"))
     ELSE \E failure \in StartInputOutcomes :
            /\ sessDevice' = deviceId
            /\ session' = IF failure = "none" THEN "running" ELSE "idle"
            /\ IF failure = "none"
               THEN UNCHANGED callVars
               ELSE Deliver(n, ErrRec("avf", n, n, failure))
  /\ UNCHANGED <<sckDataCallback, sckErrorCallback, pendingFetch>>

\* AVFEngine::Start
AVFEngine_Start(deviceType, deviceId) ==
  /\ callerPc = "idle"
  /\ nStarts < MaxStarts
  /\ nStarts' = nStarts + 1
  /\ IF deviceType = DEVICE_TYPE_OUTPUT
     THEN AVFEngine_StartOutput(deviceId, nStarts + 1)
     ELSE AVFEngine_StartInput(deviceId, nStarts + 1)
  /\ startedWhileActive' = IF MacActive
                           THEN startedWhileActive \cup {nStarts + 1}
                           ELSE startedWhileActive
  /\ startedAfterStart' = IF lastOp = "Start"
                          THEN startedAfterStart \cup {nStarts + 1}
                          ELSE startedAfterStart
  /\ lastOp' = "Start"
  /\ UNCHANGED <<engineVars, threadVars, ctlVars, callerPc, nStops, osBuffers,
                 waitsAfterClear>>
  /\ UNCHANGED <<host, emitted, jsVars, capVars>>

\* AVFEngine::Stop
AVFEngine_Stop ==
  /\ callerPc = "idle"
  /\ nStops < MaxStops
  /\ nStops' = nStops + 1
  /\ AVFEngine_Impl_Stop
  /\ lastOp' = "Stop"
  /\ UNCHANGED <<sckDataCallback, sckErrorCallback, pendingFetch>>
  /\ UNCHANGED <<engineVars, threadVars, ctlVars, callerPc, nStarts, osBuffers,
                 obsVars>>
  /\ UNCHANGED <<host, emitted, jsVars, capVars>>

\* the completion handler of getShareableContent..., dispatched to the capture
\* queue: builds the stream, adds the output and starts the capture
SCK_FetchComplete(n) ==
  /\ n \in pendingFetch
  /\ pendingFetch' = pendingFetch \ {n}
  /\ \E outcome \in {"error", "noDisplay", "addOutputError", "ok"} :
       CASE outcome \in {"error", "noDisplay"} ->
              /\ Deliver(sckErrorCallback,
                                 ErrRec("sck", sckErrorCallback, n, "fetch"))
              /\ UNCHANGED <<sckStream, streamState>>
         [] outcome = "addOutputError" ->
              /\ sckStream' = n
              /\ streamState' = [streamState EXCEPT ![n] = "created"]
              /\ Deliver(sckErrorCallback,
                                 ErrRec("sck", sckErrorCallback, n, "fetch"))
         [] outcome = "ok" ->
              /\ sckStream' = n
              /\ streamState' = [streamState EXCEPT ![n] = "starting"]
              /\ UNCHANGED callVars
  /\ UNCHANGED <<session, sessOwner, sessDevice, delegate, queue,
                 sckDataCallback, sckErrorCallback>>
  /\ UNCHANGED <<engineVars, threadVars, ctlVars, callerVars, osBuffers,
                 histVars, waitsAfterClear>>
  /\ UNCHANGED <<host, emitted, jsVars, capVars>>

\* the completion handler of startCaptureWithCompletionHandler:
SCK_StartCaptureComplete(n) ==
  /\ streamState[n] = "starting"
  /\ \E ok \in BOOLEAN :
       IF ok
       THEN /\ streamState' = [streamState EXCEPT ![n] = "running"]
            /\ UNCHANGED callVars
       ELSE /\ streamState' = [streamState EXCEPT ![n] = "failed"]
            /\ Deliver(sckErrorCallback,
                               ErrRec("sck", sckErrorCallback, n, "fetch"))
  /\ UNCHANGED <<session, sessOwner, sessDevice, delegate, queue,
                 sckDataCallback, sckErrorCallback, sckStream, pendingFetch>>
  /\ UNCHANGED <<engineVars, threadVars, ctlVars, callerVars, osBuffers,
                 histVars, waitsAfterClear>>
  /\ UNCHANGED <<host, emitted, jsVars, capVars>>

\* the handler reaches its conversion: audio with a stream description, its
\* buffer list or data pointer obtained, 32-bit float
SckConverts(sb) ==
  /\ sb.type = "audio"
  /\ sb.asbd
  /\ sb.ok
  /\ sb.isFloat
  /\ sb.mBitsPerChannel = 32

\* a planar conversion that copies the planes one after the other
SckConvert_Planar(sb) ==
  IF sb.isNonInterleaved
  THEN LET channels == sb.mChannelsPerFrame
           at(i) == sb.mBuffers[((i - 1) \div sb.numFrames) + 1][((i - 1) % sb.numFrames) + 1]
       IN  [floats |-> [i \in 1..(sb.numFrames * channels) |-> at(i)],
            pcm |-> [i \in 1..(sb.numFrames * channels) |-> Quantize(at(i))]]
  ELSE LET numSamples == sb.totalLength \div 4
       IN  [floats |-> SubSeq(sb.data, 1, numSamples),
            pcm |-> [i \in 1..numSamples |-> Quantize(sb.data[i])]]

\* outputBuffer of the handler: planar audio is interleaved (channels beyond
\* mNumberBuffers stay 0), an interleaved block of totalLength bytes yields
\* totalLength / sizeof(float) samples
SckConvert(sb) ==
  IF sb.isNonInterleaved
  THEN LET channels == sb.mChannelsPerFrame
           has(i) == ((i - 1) % channels) < Len(sb.mBuffers)
           at(i) == sb.mBuffers[((i - 1) % channels) + 1][((i - 1) \div channels) + 1]
       IN  [floats |-> [i \in 1..(sb.numFrames * channels) |->
                          IF has(i) THEN at(i) ELSE Zero32],
            pcm |-> [i \in 1..(sb.numFrames * channels) |->
                       IF has(i) THEN Quantize(at(i)) ELSE 0]]
  ELSE LET numSamples == sb.totalLength \div 4
       IN  [floats |-> SubSeq(sb.data, 1, numSamples),
            pcm |-> [i \in 1..numSamples |-> Quantize(sb.data[i])]]

\* a handler that reports a sample buffer it cannot convert
SCK_didOutputSampleBuffer_Report(n) ==
  /\ streamState[n] \in {"running", "stopping"}
  /\ osBuffers > 0
  /\ osBuffers' = osBuffers - 1
  /\ \E sb \in HostSckBuffers(host) :
       /\ lastPacket' = sb
       /\ IF sckDataCallback # 0 /\ SckConverts(sb)
          THEN /\ lastBuffer' = SckConvert(sb)
               /\ Deliver(sckDataCallback,
                          DataRec("sck", sckDataCallback, n, SYSTEM_AUDIO_DEVICE_ID,
                                  sb.numFrames, Len(SckConvert(sb).pcm) * 2))
          ELSE /\ lastBuffer' = NoBuffer
               /\ Deliver(sckErrorCallback, ErrRec("sck", sckErrorCallback, n, "format"))
  /\ UNCHANGED <<macVars, engineVars, threadVars, ctlVars, callerVars,
                 histVars, waitsAfterClear>>
  /\ UNCHANGED <<host, emitted, jsVars, mixFormat>>

\* -[SCKAudioCapture stream:didOutputSampleBuffer:ofType:] for a buffer of
\* stream n; a stream whose stop was requested delivers until the stop completes
SCK_didOutputSampleBuffer(n) ==
  /\ streamState[n] \in {"running", "stopping"}
  /\ osBuffers > 0
  /\ osBuffers' = osBuffers - 1
  /\ \E sb \in HostSckBuffers(host) :
       /\ lastPacket' = sb
       /\ IF sckDataCallback # 0 /\ SckConverts(sb)
          THEN /\ lastBuffer' = SckConvert(sb)
               /\ Deliver(sckDataCallback,
                          DataRec("sck", sckDataCallback, n, SYSTEM_AUDIO_DEVICE_ID,
                                  sb.numFrames, Len(SckConvert(sb).pcm) * 2))
          ELSE /\ lastBuffer' = NoBuffer
               /\ UNCHANGED callVars
  /\ UNCHANGED <<macVars, engineVars, threadVars, ctlVars, callerVars,
                 histVars, waitsAfterClear>>
  /\ UNCHANGED <<host, emitted, jsVars, mixFormat>>

\* the OS completes a requested stream stop
SCK_StopComplete(n) ==
  /\ streamState[n] = "stopping"
  /\ streamState' = [streamState EXCEPT ![n] = "stopped"]
  /\ UNCHANGED <<session, sessOwner, sessDevice, delegate, queue,
                 sckDataCallback, sckErrorCallback, sckStream, pendingFetch>>
  /\ UNCHANGED <<engineVars, threadVars, ctlVars, callerVars, osBuffers, obsVars>>
  /\ UNCHANGED <<host, emitted, jsVars, capVars>>

\* a delegate that lets the stream stop without reporting
SCK_didStopWithError_Silent(n) ==
  /\ streamState[n] = "running"
  /\ streamState' = [streamState EXCEPT ![n] = "stopped"]
  /\ UNCHANGED callVars
  /\ UNCHANGED <<session, sessOwner, sessDevice, delegate, queue,
                 sckDataCallback, sckErrorCallback, sckStream, pendingFetch>>
  /\ UNCHANGED <<engineVars, threadVars, ctlVars, callerVars, osBuffers,
                 histVars, waitsAfterClear>>
  /\ UNCHANGED <<host, emitted, jsVars, capVars>>

\* -[SCKAudioCapture stream:didStopWithError:]
SCK_didStopWithError(n) ==
  /\ streamState[n] = "running"
  /\ streamState' = [streamState EXCEPT ![n] = "stopped"]
  /\ Deliver(sckErrorCallback, ErrRec("sck", sckErrorCallback, n, "stream"))
  /\ UNCHANGED <<session, sessOwner, sessDevice, delegate, queue,
                 sckDataCallback, sckErrorCallback, sckStream, pendingFetch>>
  /\ UNCHANGED <<engineVars, threadVars, ctlVars, callerVars, osBuffers,
                 histVars, waitsAfterClear>>
  /\ UNCHANGED <<host, emitted, jsVars, capVars>>

\* a started stream that self.stream no longer references (a later fetch
\* completion overwrote the property) may be torn down when it is deallocated
SCK_StreamDeallocated(n) ==
  /\ streamState[n] \in {"starting", "running"}
  /\ sckStream # n
  /\ streamState' = [streamState EXCEPT ![n] = "stopped"]
  /\ UNCHANGED <<session, sessOwner, sessDevice, delegate, queue,
                 sckDataCallback, sckErrorCallback, sckStream, pendingFetch>>
  /\ UNCHANGED <<engineVars, threadVars, ctlVars, callerVars, osBuffers, obsVars>>
  /\ UNCHANGED <<host, emitted, jsVars, capVars>>

\* -[AVFRecorderDelegate captureOutput:didOutputSampleBuffer:fromConnection:]:
\* the block of totalLength bytes is passed on as it is (16-bit stereo frames)
AVF_captureOutput ==
  /\ session = "running"
  /\ osBuffers > 0
  /\ osBuffers' = osBuffers - 1
  /\ \E sb \in HostAvfBuffers(host) :
       IF sb.ok
       THEN Deliver(delegate,
                    DataRec("avf", delegate, sessOwner, sessDevice,
                            sb.totalLength \div 4, sb.totalLength))
       ELSE UNCHANGED callVars
  /\ UNCHANGED <<macVars, engineVars, threadVars, ctlVars, callerVars,
                 histVars, waitsAfterClear>>
  /\ UNCHANGED <<host, emitted, jsVars, capVars>>

MacNext ==
  \/ \E t \in DeviceTypes, id \in MacDeviceIds : AVFEngine_Start(t, id)
  \/ AVFEngine_Stop
  \/ \E n \in Sessions : SCK_FetchComplete(n)
  \/ \E n \in Sessions : SCK_StartCaptureComplete(n)
  \/ \E n \in Sessions : SCK_didOutputSampleBuffer(n)
  \/ \E n \in Sessions : SCK_StopComplete(n)
  \/ \E n \in Sessions : SCK_didStopWithError(n)
  \/ \E n \in Sessions : SCK_StreamDeallocated(n)
  \/ AVF_captureOutput

MacSpecInit == Constructed /\ host \in MacHosts /\ osDevices = PlainDevices

SpecMac == MacSpecInit /\ [][MacNext]_vars

\* --------------------------------------- system audio with varied buffers
\* The state SpecMac reaches by Start("output", "system"), the completion of
\* the content fetch and the completion of the stream start: stream 1 runs
\* with the callbacks of the first Start.
SckInit ==
  /\ WinInit
  /\ session = "nil"
  /\ sessOwner = 0
  /\ sessDevice = "none"
  /\ delegate = 0
  /\ queue = FALSE
  /\ sckDataCallback = 1
  /\ sckErrorCallback = 1
  /\ sckStream = 1
  /\ streamState = [n \in Sessions |-> IF n = 1 THEN "running" ELSE "none"]
  /\ pendingFetch = {}
  /\ lastPacket = NoPacket
  /\ lastBuffer = NoBuffer
  /\ callerPc = "idle"
  /\ nStarts = 1
  /\ nStops = 0
  /\ lastOp = "Start"
  /\ osBuffers = MaxPackets
  /\ calls = <<>>
  /\ emitted = <<>>
  /\ startedWhileActive = {}
  /\ startedAfterStart = {}
  /\ waitsAfterClear = 0
  /\ jsRecording = FALSE
  /\ startResult = [cfg |-> [deviceType |-> "<undefined>", deviceId |-> "<undefined>"],
                    outcome |-> "none", error |-> ""]
  /\ stopResult = "none"
  /\ lastQuery = NoQuery
  /\ host = VariedSckHost
  /\ osDevices = PlainDevices

SckNext ==
  \/ \E n \in Sessions : SCK_didOutputSampleBuffer(n)
  \/ \E n \in Sessions : SCK_didStopWithError(n)
  \/ \E n \in Sessions : SCK_StopComplete(n)
  \/ AVFEngine_Stop

SpecSck == SckInit /\ [][SckNext]_vars

\* ------------------------------------ AudioController over the macOS engine
\* The state after AudioController::Start for system audio on macOS: the
\* thread-safe function 1 was created, its two lambdas were stored by
\* -[SCKAudioCapture startWithCallback:errorCallback:] and the fetch of the
\* shareable content is pending.
MacBridgeInit ==
  /\ isRecording = FALSE
  /\ recordingThread = "empty"
  /\ dataCallback = 0
  /\ errorCallback = 0
  /\ currentDeviceId = ""
  /\ currentDeviceType = ""
  /\ tpc = "none"
  /\ comInit = FALSE
  /\ pwfx = FALSE
  /\ hEvent = FALSE
  /\ clientStarted = FALSE
  /\ pDevice = "none"
  /\ isLoopback = FALSE
  /\ tExit = "none"
  /\ tSession = 0
  /\ mixFormat = NoFormat
  /\ tsfn = 1
  /\ released = [n \in Sessions |-> 0]
  /\ tsfnQueue = [n \in Sessions |-> <<>>]
  /\ deleted = <<>>
  /\ session = "nil"
  /\ sessOwner = 0
  /\ sessDevice = "none"
  /\ delegate = 0
  /\ queue = FALSE
  /\ sckDataCallback = 1
  /\ sckErrorCallback = 1
  /\ sckStream = 0
  /\ streamState = [n \in Sessions |-> "none"]
  /\ pendingFetch = {1}
  /\ lastPacket = NoPacket
  /\ lastBuffer = NoBuffer
  /\ callerPc = "idle"
  /\ nStarts = 1
  /\ nStops = 0
  /\ lastOp = "Start"
  /\ osBuffers = MaxPackets
  /\ calls = <<>>
  /\ emitted = <<>>
  /\ startedWhileActive = {}
  /\ startedAfterStart = {}
  /\ waitsAfterClear = 0
  /\ jsRecording = FALSE
  /\ startResult = [cfg |-> [deviceType |-> "<undefined>", deviceId |-> "<undefined>"],
                    outcome |-> "none", error |-> ""]
  /\ stopResult = "none"
  /\ lastQuery = NoQuery
  /\ host = PlainHost
  /\ osDevices = PlainDevices

\* AudioController::Stop over the macOS engine: engine->Stop() returns at once
\* (AVFEngine::Impl::Stop), then the thread-safe function is released
AudioController_StopAVF ==
  /\ callerPc = "idle"
  /\ lastOp # "Destroy"
  /\ nStops < MaxStops
  /\ nStops' = nStops + 1
  /\ AVFEngine_Impl_Stop
  /\ ReleaseTsfn
  /\ lastOp' = "Stop"
  /\ UNCHANGED <<sckDataCallback, sckErrorCallback, pendingFetch>>
  /\ UNCHANGED <<engineVars, threadVars, callerPc, nStarts, osBuffers, obsVars>>
  /\ UNCHANGED <<host, emitted, jsVars, capVars>>

\* AudioController::~AudioController over the macOS engine: engine->Stop(),
\* tsfn->Release(), then the members: ~AVFEngine runs Impl::~Impl, which calls
\* Stop() once more and drops the reference to the SCKAudioCapture object
AudioController_Destroy ==
  /\ callerPc = "idle"
  /\ lastOp # "Destroy"
  /\ AVFEngine_Impl_Stop
  /\ ReleaseTsfn
  /\ lastOp' = "Destroy"
  /\ UNCHANGED <<sckDataCallback, sckErrorCallback, pendingFetch>>
  /\ UNCHANGED <<engineVars, threadVars, callerPc, nStarts, nStops, osBuffers, obsVars>>
  /\ UNCHANGED <<host, emitted, jsVars, capVars>>

MacBridgeNext ==
  \/ AudioController_StopAVF
  \/ AudioController_Destroy
  \/ \E n \in Sessions : SCK_FetchComplete(n)
  \/ \E n \in Sessions : SCK_StartCaptureComplete(n)
  \/ \E n \in Sessions : SCK_didOutputSampleBuffer(n)
  \/ \E n \in Sessions : SCK_StopComplete(n)
  \/ \E n \in Sessions : SCK_didStopWithError(n)
  \/ \E n \in Sessions : JS_Dispatch(n)

SpecMacBridge == MacBridgeInit /\ [][MacBridgeNext]_vars

\* --------------------------------------------------------- device queries
\* a destructor that stops the engine of the controller
SessionEngine_Destroy ==
  /\ isRecording' = FALSE
  /\ UNCHANGED <<recordingThread, dataCallback, errorCallback, currentDeviceId,
                 currentDeviceType, threadVars, macVars>>

\* auto tempEngine = CreatePlatformAudioEngine() ... ~WASAPIEngine / ~AVFEngine
\* at the end of the query: the temporary engine was constructed with
\* isRecording false and no session, so the Stop() of its destructor clears
\* no flag and joins no thread; the engine of the controller is another object
TempEngine_Destroy == UNCHANGED <<engineVars, threadVars, macVars>>

\* what a query leaves alone beside the engines
QueryFrame ==
  UNCHANGED <<capVars, ctlVars, callerVars, osBuffers, host, obsVars, emitted,
              osDevices, jsRecording, startResult, stopResult>>

\* AudioController::GetDevices (static): the devices of a temporary platform
\* engine; of each device the id, the name and isDefault are set on the
\* JavaScript object, the type is not
AudioController_GetDevices ==
  /\ callerPc = "idle"
  /\ LET devices == IF osDevices.os = "windows"
                    THEN WASAPIEngine_GetDevices(osDevices)
                    ELSE AVFEngine_GetDevices(osDevices)
     IN  lastQuery' =
           [NoQuery EXCEPT !.op = "GetDevices",
                           !.devices = devices,
                           !.result = [i \in 1..Len(devices) |->
                                         [devices[i] EXCEPT !.type = "<undefined>"]],
                           !.at = Len(calls)]
  /\ TempEngine_Destroy
  /\ QueryFrame

\* AudioController::GetDeviceFormat (static): a format whose sampleRate is 0
\* is reported by throwing
AudioController_GetDeviceFormat(deviceId) ==
  /\ callerPc = "idle"
  /\ LET format == IF osDevices.os = "windows"
                   THEN WASAPIEngine_GetDeviceFormat(osDevices, deviceId)
                   ELSE AVFEngine_GetDeviceFormat(osDevices, deviceId)
     IN  lastQuery' =
           IF format.sampleRate = 0
           THEN [NoQuery EXCEPT !.op = "GetDeviceFormat", !.id = deviceId,
                                !.error = "Failed to get device format",
                                !.at = Len(calls)]
           ELSE [NoQuery EXCEPT !.op = "GetDeviceFormat", !.id = deviceId,
                                !.format = format, !.at = Len(calls)]
  /\ TempEngine_Destroy
  /\ QueryFrame

\* WASAPIEngine::CheckPermission called on the engine
Engine_CheckPermission ==
  /\ callerPc = "idle"
  /\ osDevices.os = "windows"
  /\ lastQuery' = [NoQuery EXCEPT !.op = "CheckPermission",
                                  !.permission = WASAPIEngine_CheckPermission,
                                  !.at = Len(calls)]
  /\ UNCHANGED <<engineVars, threadVars, macVars>>
  /\ QueryFrame

\* WASAPIEngine::RequestPermission called on the engine
Engine_RequestPermission(type) ==
  /\ callerPc = "idle"
  /\ osDevices.os = "windows"
  /\ lastQuery' = [NoQuery EXCEPT !.op = "RequestPermission." \o type,
                                  !.granted = WASAPIEngine_RequestPermission(type),
                                  !.at = Len(calls)]
  /\ UNCHANGED <<engineVars, threadVars, macVars>>
  /\ QueryFrame

\* ------------------------------------- queries beside a Windows session
\* the ids queried are "m1" and an id no device has
QueryNext ==
  \/ AudioController_Start(DEVICE_TYPE_INPUT, "m1") /\ UNCHANGED <<jsRecording, startResult, stopResult>>
  \/ AudioController_Stop /\ UNCHANGED <<jsRecording, startResult, stopResult>>
  \/ AudioController_StopReturn /\ UNCHANGED <<jsRecording, startResult, stopResult>>
  \/ RecordingThread
  \/ AudioController_GetDevices
  \/ \E id \in {<<109, 49>>, <<120>>} : AudioController_GetDeviceFormat(id)
  \/ Engine_CheckPermission
  \/ \E type \in {"mic", "system"} : Engine_RequestPermission(type)

SpecQuery == Init /\ [][QueryNext]_vars

\* ------------------------------------------ queries on every machine
\* the ids queried are the ids of the modelled devices, "system", an id no
\* device has and the empty id
DevicesNext ==
  \/ AudioController_GetDevices
  \/ \E id \in {<<l, 48 + k>> : l \in {109, 111}, k \in 1..MaxEndpoints}
               \cup {SystemIdBytes, <<120>>, <<>>} :
       AudioController_GetDeviceFormat(id)

DevicesInit == Constructed /\ host = PlainHost /\ osDevices \in DeviceTables

SpecDevices == DevicesInit /\ [][DevicesNext]_vars

\* ----------------------------------------------------------- AudioRecorder
\* a start that sets this.isRecording before it calls the controller
AudioRecorder_start_FlagFirst(cfg) ==
  /\ callerPc = "idle"
  /\ LET error == IF jsRecording THEN "recording" ELSE ConfigError(cfg)
     IN  IF error # ""
         THEN /\ startResult' = [cfg |-> cfg, outcome |-> "rejected", error |-> error]
              /\ UNCHANGED <<engineVars, threadVars, capVars, ctlVars, macVars, callerVars,
                             osBuffers, host, obsVars, emitted, osDevices, lastQuery,
                             jsRecording, stopResult>>
         ELSE \/ /\ AudioController_Start(cfg.deviceType, cfg.deviceId)
                 /\ jsRecording' = TRUE
                 /\ startResult' = [cfg |-> cfg, outcome |-> "resolved", error |-> ""]
                 /\ UNCHANGED stopResult
              \/ /\ jsRecording' = TRUE
                 /\ startResult' = [cfg |-> cfg, outcome |-> "rejected", error |-> "native"]
                 /\ UNCHANGED <<engineVars, threadVars, capVars, ctlVars, macVars,
                                callerVars, osBuffers, host, obsVars, emitted, osDevices,
                                lastQuery, stopResult>>

\* AudioRecorder.start: a throw in the async function rejects the promise and
\* nothing else happens; otherwise controller.start is called, then
\* this.isRecording = true; resolve(). When controller.start throws (the
\* thread-safe function cannot be created: nothing was written yet) the catch
\* block rejects and the assignment is skipped
AudioRecorder_start(cfg) ==
  /\ callerPc = "idle"
  /\ LET error == IF jsRecording THEN "recording" ELSE ConfigError(cfg)
     IN  IF error # ""
         THEN /\ startResult' = [cfg |-> cfg, outcome |-> "rejected", error |-> error]
              /\ UNCHANGED <<engineVars, threadVars, capVars, ctlVars, macVars, callerVars,
                             osBuffers, host, obsVars, emitted, osDevices, lastQuery,
                             jsRecording, stopResult>>
         ELSE \/ /\ AudioController_Start(cfg.deviceType, cfg.deviceId)
                 /\ jsRecording' = TRUE
                 /\ startResult' = [cfg |-> cfg, outcome |-> "resolved", error |-> ""]
                 /\ UNCHANGED stopResult
              \/ /\ startResult' = [cfg |-> cfg, outcome |-> "rejected", error |-> "native"]
                 /\ UNCHANGED <<engineVars, threadVars, capVars, ctlVars, macVars,
                                callerVars, osBuffers, host, obsVars, emitted, osDevices,
                                lastQuery, jsRecording, stopResult>>

\* AudioRecorder.stop up to the return of controller.stop(): a recorder that
\* is not recording resolves at once; when controller.stop() throws, the catch
\* block rejects and this.isRecording = false is skipped
AudioRecorder_stop ==
  /\ callerPc = "idle"
  /\ IF ~jsRecording
     THEN /\ stopResult' = "resolved"
          /\ UNCHANGED <<engineVars, threadVars, capVars, ctlVars, macVars, callerVars,
                         osBuffers, host, obsVars, emitted, osDevices, lastQuery,
                         jsRecording, startResult>>
     ELSE \/ /\ AudioController_Stop
             /\ jsRecording' = (callerPc' # "idle")
             /\ stopResult' = IF callerPc' = "idle" THEN "resolved" ELSE "pending"
             /\ UNCHANGED startResult
          \/ /\ stopResult' = "rejected"
             /\ UNCHANGED <<engineVars, threadVars, capVars, ctlVars, macVars,
                            callerVars, osBuffers, host, obsVars, emitted, osDevices,
                            lastQuery, jsRecording, startResult>>

\* controller.stop() returns from the join: this.isRecording = false; resolve()
AudioRecorder_stopReturn ==
  /\ AudioController_StopReturn
  /\ jsRecording' = FALSE
  /\ stopResult' = "resolved"
  /\ UNCHANGED startResult

\* the configurations a caller passes to start: deviceType "input", "system",
\* empty or left out; deviceId "m1", an id no device has, empty or left out
RecorderNext ==
  \/ \E t \in {DEVICE_TYPE_INPUT, "system", "", "<undefined>"},
        id \in {"m1", "nonexistent", "", "<undefined>"} :
       AudioRecorder_start([deviceType |-> t, deviceId |-> id])
  \/ AudioRecorder_stop
  \/ AudioRecorder_stopReturn
  \/ RecordingThread

SpecRecorder == Init /\ [][RecorderNext]_vars

\* ------------------------------------ AudioRecorder with the JavaScript thread
\* the recorder of index.ts with its events: start on the microphone "m1" or
\* on an id no device has, stop, the producer thread, and the queued calls run
\* on the JavaScript thread
EventsNext ==
  \/ \E id \in {"m1", "nonexistent"} :
       AudioRecorder_start([deviceType |-> DEVICE_TYPE_INPUT, deviceId |-> id])
  \/ AudioRecorder_stop
  \/ AudioRecorder_stopReturn
  \/ RecordingThread
  \/ \E n \in Sessions : JS_Dispatch(n)

SpecEvents == Init /\ [][EventsNext]_vars

\* ------------------------------------------------------------------ claims
StopReturned == callerPc = "idle" /\ lastOp = "Stop"

ErrorInvoked(n) == \E i \in 1..Len(calls) : calls[i].kind = "error" /\ calls[i].cb = n
DataInvoked(n) == \E i \in 1..Len(calls) : calls[i].kind = "data" /\ calls[i].cb = n

\* C1: on the Windows backend, once Stop() has returned no callback (on_data
\* or on_error) is invoked until a later Start, in every interleaving of the
\* caller and the producer thread.
C1_SilentAfterStop ==
  [][(StopReturned /\ nStarts' = nStarts) => calls' = calls]_vars

\* a session that delivered data was stopped while the OS still had packets
C1_Witness ==
  /\ StopReturned
  /\ tExit = "stopped"
  /\ DataInvoked(tSession)
  /\ osBuffers > 0

\* C5: after an initialization failure on the producer thread the session is
\* inactive and the next Start, with no Stop in between, starts a session
\* with its own callbacks.
C5_RestartAfterInitFailure ==
  [][(tExit = "init" /\ recordingThread = "finished" /\ callerPc = "idle")
       => /\ ErrorInvoked(tSession)
          /\ ~isRecording
          /\ (nStarts' = nStarts + 1
                => recordingThread' = "running" /\ dataCallback' = nStarts')]_vars

\* C6: when Start has returned, the audio client of the session it began is
\* running or on_error has been invoked; initialization is never pending.
C6_StartReturnsAfterRunningOrError ==
  LET \* the producer thread has reached the running state of the audio client
      ReachedRunning ==
        \/ tpc \in {"loop", "WaitForSingleObject", "GetNextPacketSize",
                    "GetBuffer", "ReleaseBuffer", "GetNextPacketSize2"}
        \/ tExit \in {"packet", "stopped"}
  IN  (lastOp = "Start" /\ callerPc = "idle" /\ tSession = nStarts)
        => (ReachedRunning \/ ErrorInvoked(nStarts))

\* C7: a Stop that follows a Stop with no Start in between, and a Stop on an
\* engine and controller that were never started, changes no engine, thread or
\* controller state, invokes no callback, joins no thread and releases nothing.
C7_StopIdempotent ==
  [][(callerPc = "idle" /\ lastOp \in {"none", "Stop"} /\ nStops' = nStops + 1)
       => /\ UNCHANGED <<engineVars, threadVars, ctlVars, calls>>
          /\ callerPc' = "idle"]_vars

\* a session was started and stopped, and a further Stop was issued
C7_Witness ==
  /\ StopReturned
  /\ nStarts = 1
  /\ nStops = 2
  /\ tExit = "stopped"
  /\ released[1] = 1

\* C8: when Stop has returned on the Windows backend the producer thread has
\* terminated and been joined, and the started audio client, the mix format,
\* the event handle and the COM apartment of the session are all released.
C8_StopReleasesAll ==
  StopReturned =>
    /\ recordingThread = "empty"
    /\ ~clientStarted
    /\ ~pwfx
    /\ ~hEvent
    /\ ~comInit

\* Stop returned on a session that had acquired every resource
C8_Witness ==
  /\ StopReturned
  /\ tExit \in {"stopped", "packet"}
  /\ recordingThread = "empty"

\* C9: every Stop that blocks on an active Windows session returns, and
\* after the flag is cleared at most one more event wait returns before the
\* producer loop exits (every OS wait returns; the packet supply is finite).
C9_StopReturns ==
  /\ [](waitsAfterClear <= 1)
  /\ (callerPc = "joining") ~> (callerPc = "idle")

\* Stop returned after the producer finished one more event wait
C9_Witness ==
  /\ StopReturned
  /\ tExit = "stopped"
  /\ waitsAfterClear = 1

\* C2: on the macOS system-audio backend, once Stop() has returned the
\* system-audio capture invokes neither on_data nor on_error until a later
\* Start, also when the content fetch was pending at Stop and when the stream
\* stop has not completed.
C2_SystemAudioSilentAfterStop ==
  [][(StopReturned /\ nStarts' = nStarts /\ Len(calls') > Len(calls))
       => calls'[Len(calls')].via # "sck"]_vars

\* C3: an engine has at most one active capture source: one producer thread
\* on Windows (no thread is spawned over a live one), and on macOS never a
\* running microphone session together with a running system-audio stream.
C3_AtMostOneActiveSource ==
  LET \* the capture sources of the macOS engine that are running
      MacSources ==
        (IF session = "running" THEN {<<"avf", sessOwner>>} ELSE {})
          \cup {<<"sck", n>> : n \in {m \in Sessions : streamState[m] = "running"}}
  IN  /\ recordingThread # "terminate"
      /\ Cardinality(MacSources) <= 1

\* C4: a Start issued while a session is active is rejected: the capture
\* state of the first session is untouched, and the callbacks passed to the
\* rejected Start are never invoked.
C4_SecondStartRejected ==
  [][/\ (nStarts' = nStarts + 1 /\ (MacActive \/ isRecording))
          => UNCHANGED <<engineVars, threadVars, session, sessOwner, delegate,
                         sckDataCallback, sckErrorCallback, sckStream,
                         streamState, pendingFetch>>
     /\ Len(calls') > Len(calls)
          => calls'[Len(calls')].cb \notin startedWhileActive']_vars

\* C10: when every Start after the first follows a Stop (Start, Stop, Start),
\* every buffer is delivered to the callbacks of the Start that created its
\* capture source, from the device that Start named: no buffer of one session
\* reaches the callbacks of the other.
C10_SessionsIndependent ==
  startedAfterStart = {} =>
    \A i \in 1..Len(calls) :
      calls[i].kind = "data" => calls[i].cb = calls[i].src

\* the positions in emitted of the 'data' events of callback pair n
DataEvents(n) ==
  {k \in 1..Len(emitted) : emitted[k].event = "data" /\ emitted[k].cb = n}

\* C11: within a session the buffers handed to the bridge's data callback
\* reach the consumer callback in the order they were handed over, each at
\* most once, none skipped before a later one, and each with the length it
\* was handed over with, in every interleaving of enqueues and dequeues.
C11_BridgeKeepsOrder ==
  \A n \in Sessions :
    /\ \A j, k \in DataEvents(n) : j < k => emitted[j].seq < emitted[k].seq
    /\ \A k \in DataEvents(n) :
         /\ emitted[k].seq \in 1..Len(calls)
         /\ calls[emitted[k].seq].kind = "data"
         /\ calls[emitted[k].seq].cb = n
         /\ calls[emitted[k].seq].bytes = emitted[k].bytes
         /\ \A i \in 1..emitted[k].seq :
              (calls[i].kind = "data" /\ calls[i].cb = n)
                => \E j \in DataEvents(n) : j <= k /\ emitted[j].seq = i

\* two buffers of one session were both queued before the consumer thread
\* took the first, and both have been emitted
C11_Witness ==
  \E n \in Sessions :
    /\ Cardinality(DataEvents(n)) = 2
    /\ tsfnQueue[n] = <<>>
    /\ tExit = "stopped"
    /\ Len(emitted) = Len(calls)

\* the on_error invocations of callback pair n
ErrorCalls(n) == {i \in 1..Len(calls) : calls[i].kind = "error" /\ calls[i].cb = n}

\* C12: in a session (one Start up to the next Stop, every Start after the
\* first following a Stop) on_error is invoked at most once.
C12_AtMostOneFatalError ==
  startedAfterStart = {} => \A n \in Sessions : Cardinality(ErrorCalls(n)) <= 1

\* C13: when GetNextPacketSize, GetBuffer or ReleaseBuffer fails during
\* capture on Windows, on_error is invoked, the producer leaves the loop, and
\* no on_data of that session follows the error.
C13_PacketFailureEndsLoop ==
  /\ tExit = "packet"
       => /\ tpc \in {"Stop", "cleanup", "done"}
          /\ \E i \in 1..Len(calls) :
               calls[i] = ErrRec("wasapi", tSession, tSession, "packet")
  /\ \A i, j \in 1..Len(calls) :
       (i < j /\ calls[i].class = "packet" /\ calls[j].src = calls[i].src)
         => calls[j].kind # "data"

\* a packet call failed after data was delivered and while the OS had more
C13_Witness ==
  /\ tExit = "packet"
  /\ recordingThread = "finished"
  /\ DataInvoked(tSession)
  /\ osBuffers > 0

\* the producer holds a packet of at least one frame whose silent flag is set
SilentPacketHeld ==
  /\ tpc = "ReleaseBuffer"
  /\ lastPacket.silent
  /\ lastPacket.frames > 0

\* C14: a captured packet whose silent flag is set is delivered through
\* on_data as frames x channels zero samples, whatever its data and the mix
\* format, and neither invokes on_error nor ends the session.
C14_SilentPacketIsZeros ==
  SilentPacketHeld =>
    /\ Len(lastBuffer.pcm) = lastPacket.frames * mixFormat.nChannels
    /\ \A i \in 1..Len(lastBuffer.pcm) : lastBuffer.pcm[i] = 0
    /\ calls # <<>>
    /\ calls[Len(calls)] = DataRec("wasapi", dataCallback, tSession, pDevice,
                                   lastPacket.frames,
                                   lastPacket.frames * mixFormat.nChannels * 2)
    /\ tExit = "none"
    /\ recordingThread = "running"

\* a silent two-frame packet of a 24-bit stereo endpoint whose data is not zero
C14_Witness ==
  /\ SilentPacketHeld
  /\ mixFormat = WaveFormat(WAVE_FORMAT_PCM, "", 24, 2)
  /\ lastPacket.frames = 2
  /\ lastPacket.pData[1] = <<255, 255, 127>>

\* the last callback invocation handed on the buffer converted from the
\* sample buffer lastPacket
SckBufferDelivered ==
  /\ lastPacket # NoPacket
  /\ SckConverts(lastPacket)
  /\ calls # <<>>
  /\ calls[Len(calls)].kind = "data"

\* C15: every buffer passed to on_data has a length that is a positive
\* multiple of 2 x channels bytes, for every sample buffer the OS delivers,
\* whatever its frame count or byte length.
C15_WholeFrames ==
  SckBufferDelivered =>
    /\ calls[Len(calls)].bytes > 0
    /\ calls[Len(calls)].bytes % (2 * lastPacket.mChannelsPerFrame) = 0

\* the numerator over 2^e of a sample after the clip to [-1, 1]
ClippedNumerator(x) == IF x.m > Pow2(x.e) THEN Pow2(x.e) ELSE x.m

\* the samples of the buffer handed on whose float32 product with 32767 is
\* exact (fractions of at most 15 bits)
ExactSamples == {i \in 1..Len(lastBuffer.pcm) : lastBuffer.floats[i].e <= 15}

\* C16 as stated: the int16 produced equals s x 32767, with s clipped to
\* [-1, 1], rounded to the nearest integer.
C16_ClipRound ==
  \A i \in ExactSamples :
    LET x == lastBuffer.floats[i]
        mag == (2 * ClippedNumerator(x) * INT16_SCALE + Pow2(x.e)) \div Pow2(x.e + 1)
    IN  lastBuffer.pcm[i] = IF x.neg THEN -mag ELSE mag

\* C16, amended: the int16 produced is s x 32767, with s clipped to [-1, 1],
\* with its fraction discarded (truncation toward zero, not rounding): q with
\* |q| <= |s| x 32767 < |q| + 1 and the sign of s; so 0 -> 0, 1.0 -> 32767,
\* -1.0 -> -32767, 2.0 -> 32767, -2.0 -> -32767.
C16_ClipTruncate ==
  \A i \in ExactSamples :
    LET x == lastBuffer.floats[i]
        q == lastBuffer.pcm[i]
    IN  /\ Abs(q) * Pow2(x.e) <= ClippedNumerator(x) * INT16_SCALE
        /\ ClippedNumerator(x) * INT16_SCALE < (Abs(q) + 1) * Pow2(x.e)
        /\ q < 0 => x.neg
        /\ q > 0 => ~x.neg

\* a float32 packet with the samples -2.0 and 0.5 was converted to -32767 and
\* 16383
C16_Witness ==
  /\ tpc = "ReleaseBuffer"
  /\ IsFloatFormat(mixFormat)
  /\ ~lastPacket.silent
  /\ Len(lastBuffer.pcm) >= 2
  /\ lastBuffer.floats[1] = F32(TRUE, 2, 0)
  /\ lastBuffer.pcm[1] = -32767
  /\ lastBuffer.floats[2] = F32(FALSE, 1, 1)
  /\ lastBuffer.pcm[2] = 16383

\* the producer holds a packet of a 24-bit integer endpoint that is not silent
Pcm24PacketHeld ==
  /\ tpc = "ReleaseBuffer"
  /\ ~IsFloatFormat(mixFormat)
  /\ mixFormat.wBitsPerSample = 24
  /\ ~lastPacket.silent

\* C17: for 24-bit PCM the bytes 00 00 80 give an int16 within 1 of -32768,
\* the bytes FF FF 7F one within 1 of +32767, and every sample whose top byte
\* is at least 0x80 gives a non-positive int16.
C17_Pcm24SignExtended ==
  Pcm24PacketHeld =>
    \A i \in 1..Len(lastBuffer.pcm) :
      /\ lastPacket.pData[i] = <<0, 0, 128>> => Abs(lastBuffer.pcm[i] + 32768) <= 1
      /\ lastPacket.pData[i] = <<255, 255, 127>> => Abs(lastBuffer.pcm[i] - 32767) <= 1
      /\ lastPacket.pData[i][3] >= 128 => lastBuffer.pcm[i] <= 0

\* a 24-bit packet holding the lowest and the highest sample was converted to
\* -32767 and 32766
C17_Witness ==
  /\ Pcm24PacketHeld
  /\ Len(lastBuffer.pcm) >= 2
  /\ lastPacket.pData[1] = <<0, 0, 128>>
  /\ lastBuffer.pcm[1] = -32767
  /\ lastPacket.pData[2] = <<255, 255, 127>>
  /\ lastBuffer.pcm[2] = 32766

\* sb is planar 32-bit float audio with one plane per channel
PlanarFloatBuffer(sb) ==
  /\ sb # NoPacket
  /\ SckConverts(sb)
  /\ sb.isNonInterleaved
  /\ Len(sb.mBuffers) = sb.mChannelsPerFrame

\* C18: for a planar float32 system-audio buffer of N frames and C channels
\* on_data is invoked exactly once, with N x C x 2 bytes, and the int16 at
\* index f x C + c is the quantized sample of channel c at frame f.
C18_PlanarInterleaved ==
  [][(osBuffers' = osBuffers - 1 /\ PlanarFloatBuffer(lastPacket'))
       => LET sb == lastPacket'
              N == sb.numFrames
              C == sb.mChannelsPerFrame
          IN  /\ Len(calls') = Len(calls) + 1
              /\ calls'[Len(calls')].kind = "data"
              /\ calls'[Len(calls')].cb = sckDataCallback
              /\ calls'[Len(calls')].bytes = N * C * 2
              /\ Len(lastBuffer'.pcm) = N * C
              /\ \A f \in 0..(N - 1), c \in 0..(C - 1) :
                   lastBuffer'.pcm[f * C + c + 1] = Quantize(sb.mBuffers[c + 1][f + 1])]_vars

\* a planar stereo buffer of two frames, -2.0 and 0.5 in the first channel and
\* 0.75 and the largest float32 below 1 in the second, was delivered interleaved
C18_Witness ==
  /\ PlanarFloatBuffer(lastPacket)
  /\ lastPacket.numFrames = 2
  /\ lastPacket.mChannelsPerFrame = 2
  /\ lastPacket.mBuffers[1] = <<F32(TRUE, 2, 0), F32(FALSE, 1, 1)>>
  /\ lastBuffer.pcm = <<-32767, 24575, 16383, 32766>>
  /\ calls # <<>>
  /\ calls[Len(calls)].bytes = 8

\* C19: a Start whose id resolves to a device of the opposite type is
\* rejected: once its producer thread has ended, on_error has been invoked,
\* no data was delivered and the session is inactive.
C19_TypeMismatchRejected ==
  (currentDeviceId \in WinEndpoints
     /\ EndpointType(currentDeviceId) # currentDeviceType
     /\ recordingThread = "finished" /\ lastOp = "Start"
     /\ callerPc = "idle" /\ tSession = nStarts)
    => /\ ErrorInvoked(tSession)
       /\ ~DataInvoked(tSession)
       /\ ~isRecording

\* C20: on macOS a Start("input", id) for a microphone while the microphone
\* permission is denied reports PERMISSION_DENIED through on_error, starts no
\* capture session and delivers no data.
C20_PermissionDenied ==
  (~host.micPermission /\ sessOwner # 0 /\ sessDevice \in MacMicrophones)
    => /\ \E i \in 1..Len(calls) :
            /\ calls[i].kind = "error"
            /\ calls[i].cb = sessOwner
            /\ calls[i].class = "PERMISSION_DENIED"
       /\ session # "running"
       /\ ~DataInvoked(sessOwner)

\* ------------------------------------------------------------ C21 .. C30
\* C21: AudioRecorder.start with a missing or empty deviceType or deviceId, or
\* with a deviceType other than 'input' and 'output', rejects its promise
\* without calling the native controller (no Start reaches the controller or
\* the engine, no thread-safe function is created, no callback runs) and does
\* not set the recording flag of the recorder: a recorder that was not
\* recording is not recording afterwards.
C21_InvalidConfigRejected ==
  [][(/\ startResult' # startResult
       /\ \/ startResult'.cfg.deviceType \in {"", "<undefined>"}
          \/ startResult'.cfg.deviceId \in {"", "<undefined>"}
          \/ startResult'.cfg.deviceType \notin {"input", "output"})
       => /\ startResult'.outcome = "rejected"
          /\ nStarts' = nStarts
          /\ UNCHANGED <<engineVars, threadVars, ctlVars, macVars, callVars>>
          /\ jsRecording' = jsRecording
          /\ (startResult'.error # "recording" => ~jsRecording')]_vars

\* a start with deviceType "system" was rejected after an earlier session of
\* the same recorder had been started and stopped
C21_Witness ==
  /\ startResult.outcome = "rejected"
  /\ startResult.error = "deviceType"
  /\ startResult.cfg = [deviceType |-> "system", deviceId |-> "m1"]
  /\ nStarts >= 1
  /\ ~jsRecording

\* C22: the promise of AudioRecorder.start is resolved only for a device id
\* that exists; a start with an id no endpoint has is rejected.
C22_ResolvedOnlyForExistingDevice ==
  startResult.outcome = "resolved" => startResult.cfg.deviceId \in WinEndpoints

\* C23: every device in a list an engine's GetDevices returns has a non-empty
\* id and the type "input" or "output", on Windows and on macOS, whatever
\* endpoints the machine has.
C23_DevicesHaveIdAndType ==
  lastQuery.op = "GetDevices"
    => \A i \in 1..Len(lastQuery.devices) :
         /\ lastQuery.devices[i].id # <<>>
         /\ lastQuery.devices[i].type \in {"input", "output"}

\* a Windows enumeration met a capture endpoint whose GetId failed and
\* returned a capture device and a render device
C23_Witness ==
  /\ lastQuery.op = "GetDevices"
  /\ osDevices.os = "windows"
  /\ \E i \in 1..Len(osDevices.inputs) :
       osDevices.inputs[i].state = "active" /\ ~osDevices.inputs[i].idOk
  /\ \E i \in 1..Len(lastQuery.devices) : lastQuery.devices[i].type = "input"
  /\ \E i \in 1..Len(lastQuery.devices) : lastQuery.devices[i].type = "output"

\* C24: in every list an engine's GetDevices returns, at most one device of
\* each type has isDefault = TRUE.
C24_AtMostOneDefaultPerType ==
  lastQuery.op = "GetDevices"
    => \A type \in DeviceTypes :
         Cardinality({i \in 1..Len(lastQuery.devices) :
                        /\ lastQuery.devices[i].type = type
                        /\ lastQuery.devices[i].isDefault}) <= 1

\* a list with two render devices of which exactly one is the default
C24_Witness ==
  /\ lastQuery.op = "GetDevices"
  /\ Cardinality({i \in 1..Len(lastQuery.devices) :
                    lastQuery.devices[i].type = "output"}) = 2
  /\ Cardinality({i \in 1..Len(lastQuery.devices) :
                    /\ lastQuery.devices[i].type = "output"
                    /\ lastQuery.devices[i].isDefault}) = 1

\* the id resolves to a device whose format the OS reports: on Windows
\* GetDevice, Activate and GetMixFormat succeed; on macOS the id is "system",
\* or deviceWithUniqueID: finds the device and its stream description is there
FormatReported(t, deviceId) ==
  IF t.os = "windows"
  THEN /\ t.available
       /\ \E d \in ResolveEndpoint(t, WidenId(deviceId)) : d.state = "active" /\ d.format.ok
  ELSE deviceId = SystemIdBytes
       \/ \E i \in 1..Len(t.inputs) : t.inputs[i].id = deviceId /\ t.inputs[i].format.ok

\* C25 as stated: GetDeviceFormat returns a format with bitDepth 16 and
\* positive sampleRate and channels for every id that resolves to a device.
C25_ResolvedIdHasFormat ==
  (/\ lastQuery.op = "GetDeviceFormat"
   /\ IF osDevices.os = "windows"
      THEN osDevices.available /\ ResolveEndpoint(osDevices, WidenId(lastQuery.id)) # {}
      ELSE \/ lastQuery.id = SystemIdBytes
           \/ \E i \in 1..Len(osDevices.inputs) : osDevices.inputs[i].id = lastQuery.id)
    => /\ lastQuery.error = ""
       /\ lastQuery.format.bitDepth = 16
       /\ lastQuery.format.sampleRate > 0
       /\ lastQuery.format.channels > 0

\* C25: GetDeviceFormat returns exactly (48000, 2, 16, 32) for "system" on
\* macOS; for every other id that resolves to a device whose format the OS
\* reports it returns bitDepth 16 with positive sampleRate and channels; an id
\* that does not resolve, or whose device does not report a format, yields an
\* error and no format.
C25_FormatOfDevice ==
  lastQuery.op = "GetDeviceFormat"
    => /\ (osDevices.os = "macos" /\ lastQuery.id = SystemIdBytes)
            => (lastQuery.error = "" /\ lastQuery.format = AudioFormat(48000, 2, 16, 32))
       /\ FormatReported(osDevices, lastQuery.id)
            => /\ lastQuery.error = ""
               /\ lastQuery.format.bitDepth = 16
               /\ lastQuery.format.sampleRate > 0
               /\ lastQuery.format.channels > 0
       /\ ~FormatReported(osDevices, lastQuery.id)
            => (lastQuery.error # "" /\ lastQuery.format = AudioFormat(0, 0, 0, 0))

\* the id of an unplugged Windows endpoint was queried: it resolves, and the
\* query ended with an error
C25_Witness ==
  /\ lastQuery.op = "GetDeviceFormat"
  /\ osDevices.os = "windows"
  /\ \E d \in ResolveEndpoint(osDevices, WidenId(lastQuery.id)) : d.state = "unplugged"
  /\ lastQuery.error # ""

\* C26: a call of GetDevices or GetDeviceFormat, made with or without an
\* active session, leaves the session as it was: the running flag, the
\* producer thread and its resources, the stored callbacks, the bound device,
\* the thread-safe function and the pending packets do not change.
C26_QueriesLeaveSession ==
  [][(lastQuery' # lastQuery /\ lastQuery'.op \in {"GetDevices", "GetDeviceFormat"})
       => UNCHANGED <<engineVars, threadVars, capVars, ctlVars, macVars, callerVars,
                      osBuffers, callVars>>]_vars

\* a query was answered between two data deliveries of one session
C26_Witness ==
  /\ lastQuery.op \in {"GetDevices", "GetDeviceFormat"}
  /\ lastQuery.at >= 1
  /\ lastQuery.at < Len(calls)
  /\ calls[lastQuery.at].kind = "data"
  /\ calls[lastQuery.at + 1].kind = "data"
  /\ calls[lastQuery.at + 1].cb = calls[lastQuery.at].cb

\* C27: on Windows CheckPermission returns {mic: TRUE, system: TRUE} and
\* RequestPermission returns TRUE for both kinds, whatever state the engine
\* is in; the call returns at once (the caller is not left waiting) and the
\* session does not change.
C27_WindowsPermissionsGranted ==
  [][(/\ lastQuery' # lastQuery
      /\ lastQuery'.op \in {"CheckPermission", "RequestPermission.mic",
                          "RequestPermission.system"})
       => /\ lastQuery'.op = "CheckPermission"
               => lastQuery'.permission = [mic |-> TRUE, system |-> TRUE]
          /\ lastQuery'.op # "CheckPermission" => lastQuery'.granted
          /\ callerPc' = "idle"
          /\ UNCHANGED <<engineVars, threadVars, capVars, ctlVars, macVars, callerVars,
                         osBuffers, callVars>>]_vars

\* the permissions were checked while the producer thread of a session was
\* in its capture loop
C27_Witness ==
  /\ lastQuery.op = "CheckPermission"
  /\ lastQuery.permission.mic
  /\ lastQuery.permission.system
  /\ isRecording
  /\ recordingThread = "running"
  /\ tpc = "loop"

\* C28: the stored callbacks, the device id and the device type of the
\* Windows engine are written only while the engine has no producer thread:
\* before the first thread is spawned or after the previous one has been
\* joined, never while a thread is running or has finished without being
\* joined, for every sequence of Start and Stop of one caller.
C28_FieldsWrittenWithoutThread ==
  [][(\/ dataCallback' # dataCallback
      \/ errorCallback' # errorCallback
      \/ currentDeviceId' # currentDeviceId
      \/ currentDeviceType' # currentDeviceType)
       => recordingThread = "empty"]_vars

\* the second Start wrote the callbacks after the thread of the first session
\* had exited on its own with an error and Stop had joined it
C28_Witness ==
  /\ nStarts = 2
  /\ nStops = 1
  /\ dataCallback = 2
  /\ tSession = 2
  /\ \E i \in 1..Len(calls) :
       calls[i].kind = "error" /\ calls[i].src = 1 /\ calls[i].via = "wasapi"

\* C29: on every exit path of the Windows producer thread (an initialization
\* failure, a per-packet failure, a normal stop) the thread returns with the
\* mix format freed, the event handle closed, the apartment uninitialized and
\* the audio client stopped; a started client is stopped before the teardown,
\* and the three resources are released in the teardown step only, which a
\* thread takes once.
C29_ExitReleasesAll ==
  [][/\ tpc' = "done" => (~pwfx' /\ ~hEvent' /\ ~comInit' /\ ~clientStarted')
     /\ tpc' = "cleanup" => ~clientStarted'
     /\ ((pwfx /\ ~pwfx') \/ (hEvent /\ ~hEvent') \/ (comInit /\ ~comInit'))
          => (tpc = "cleanup" /\ tpc' = "done")]_vars

\* the thread returned after a per-packet failure, before any Stop
C29_Witness ==
  /\ tpc = "done"
  /\ recordingThread = "finished"
  /\ tExit = "packet"
  /\ isRecording
  /\ ~pwfx /\ ~hEvent /\ ~comInit /\ ~clientStarted

\* C30: on the macOS microphone backend a Start that fails at one of its
\* steps (device not found, input creation, cannot add input, cannot add
\* output) has invoked on_error exactly once, its capture session is not
\* running, and no data is delivered for it.
C30_FailedMicStartReportsOnce ==
  \A n \in 1..MaxStarts :
    LET failed == \E i \in ErrorCalls(n) : calls[i].via = "avf" /\ calls[i].src = n
    IN  /\ (sessOwner = n /\ session = "idle")
             => (Cardinality(ErrorCalls(n)) = 1 /\ failed /\ ~DataInvoked(n))
        /\ failed
             => (Cardinality(ErrorCalls(n)) = 1 /\ ~DataInvoked(n)
                 /\ ~(sessOwner = n /\ session = "running"))

\* a Start on an existing microphone failed at canAddOutput
C30_Witness ==
  \E n \in 1..MaxStarts :
    /\ sessOwner = n
    /\ session = "idle"
    /\ sessDevice = "m1"
    /\ \E i \in ErrorCalls(n) : calls[i].via = "avf" /\ calls[i].class = "canAddOutput"

\* C31: a system-audio sample buffer that is not 32-bit float is dropped:
\* the handler invokes neither on_data nor on_error for it and leaves the
\* stream as it is, and a 32-bit float audio buffer that arrives on a running
\* stream is delivered through on_data whatever was dropped before it.
C31_NonFloatDropped ==
  [][osBuffers' < osBuffers
       => /\ ~(lastPacket'.isFloat /\ lastPacket'.mBitsPerChannel = 32)
               => /\ calls' = calls
                  /\ tsfnQueue' = tsfnQueue
                  /\ streamState' = streamState
                  /\ sckStream' = sckStream
          /\ (SckConverts(lastPacket') /\ sckDataCallback # 0)
               => /\ Len(calls') = Len(calls) + 1
                  /\ calls'[Len(calls')].kind = "data"]_vars

\* a 16-bit integer audio buffer has just been dropped: nothing was invoked,
\* the stream runs and the OS has further buffers for it
C31_Witness ==
  /\ lastPacket \in {IntegerAudio(ni) : ni \in BOOLEAN}
  /\ lastBuffer = NoBuffer
  /\ osBuffers = MaxPackets - 1
  /\ calls = <<>>
  /\ sckStream = 1
  /\ streamState[1] = "running"

C33_FlagFalseNotJoinable ==
  ~isRecording => ~Joinable

\* C33 (amended): in every state of a Windows engine in which no Stop call is
\* in progress, a false running flag means that the thread handle is not
\* joinable; Start therefore never assigns a new thread over a joinable one.
C33_FlagFalseNotJoinableBetweenCalls ==
  /\ (~isRecording /\ callerPc = "idle") => ~Joinable
  /\ recordingThread # "terminate"

\* a second producer thread was spawned after the first had been joined, and
\* was joined in its turn
C33_Witness ==
  /\ ~isRecording
  /\ callerPc = "idle"
  /\ tSession = 2
  /\ recordingThread = "empty"

\* C34: after the promise returned by AudioRecorder.stop() has resolved, no
\* further 'data' or 'error' event is emitted by the recorder (until it is
\* started again), also when buffers were queued at the bridge before stop and
\* had not been taken by the JavaScript thread.
C34_NoEventAfterStop ==
  [][(stopResult = "resolved" /\ lastOp = "Stop" /\ ~jsRecording /\ nStarts' = nStarts)
       => emitted' = emitted]_vars

\* C35: an 'error' event never changes the recording state of the recorder:
\* the step that emits an event leaves isRecording as it is, a recorder that
\* was started stays recording until stop() has returned, whatever errors were
\* reported, and while it is recording every start() is rejected with
\* "Already recording" and reaches no native call.
C35_ErrorKeepsRecording ==
  /\ [][emitted' # emitted => jsRecording' = jsRecording]_vars
  /\ [](lastOp = "Start" => jsRecording)
  /\ [][(jsRecording /\ startResult' # startResult)
          => /\ startResult'.outcome = "rejected"
             /\ startResult'.error = "recording"
             /\ nStarts' = nStarts
             /\ jsRecording']_vars

\* the 'error' event of a failed initialization was emitted, the recorder is
\* still recording, and a start() issued in that state was rejected
C35_Witness ==
  /\ jsRecording
  /\ nStarts = 1
  /\ tExit = "init"
  /\ \E k \in 1..Len(emitted) : emitted[k].event = "error" /\ emitted[k].cb = 1
  /\ startResult.outcome = "rejected"
  /\ startResult.error = "recording"

\* C39: when the native start call throws, AudioRecorder.start rejects and the
\* recorder stays not recording; when the native stop call throws,
\* AudioRecorder.stop rejects and the recorder stays recording; otherwise the
\* recording flag is true exactly from a resolved start to the next resolved
\* stop (a stop still blocked in the native call has not resolved).
C39_FlagFollowsPromises ==
  /\ startResult.error = "native"
       => (startResult.outcome = "rejected" /\ ~jsRecording)
  /\ stopResult = "rejected" => jsRecording
  /\ stopResult = "pending" => (jsRecording /\ callerPc = "joining")
  /\ jsRecording <=> (lastOp = "Start")
  /\ (startResult.outcome = "resolved" /\ lastOp = "Stop")
       => (stopResult = "resolved" /\ ~jsRecording)

\* the recorder was started, stopped and started again, and the native stop
\* call of the second session threw: the recorder is still recording
C39_Witness ==
  /\ nStarts = 2
  /\ nStops = 1
  /\ startResult.outcome = "resolved"
  /\ stopResult = "rejected"
  /\ jsRecording

\* C36: each thread-safe function created by a Start has been released
\* exactly once when the controller has been stopped, and none is ever
\* released twice.
C36_EveryTsfnReleasedOnce ==
  /\ \A n \in Sessions : released[n] <= 1
  /\ StopReturned => \A n \in 1..nStarts : released[n] = 1

\* C37: every heap copy the bridge makes of a data buffer or error message is
\* deleted exactly once: a copy is made for every callback invocation; while
\* it waits in the queue of its thread-safe function it has not been deleted;
\* once the consumer callback ran for it, it was deleted (by that callback);
\* a copy that was never queued, because the released function refused the
\* call, was deleted by the producer; and none is deleted twice.
C37_HeapCopyFreedOnce ==
  /\ Len(deleted) = Len(calls)
  /\ \A i \in 1..Len(calls) :
       LET queued == \E n \in Sessions : \E k \in 1..Len(tsfnQueue[n]) :
                       tsfnQueue[n][k].seq = i
           ran == \E k \in 1..Len(emitted) : emitted[k].seq = i
       IN  /\ deleted[i] = IF queued THEN 0 ELSE 1
           /\ ~(queued /\ ran)
           /\ Cardinality({k \in 1..Len(emitted) : emitted[k].seq = i}) <= 1

\* one copy was deleted by the consumer callback and another, made after the
\* release of the thread-safe function, by the producer
C37_Witness ==
  /\ released[1] = 1
  /\ \E i, j \in 1..Len(calls) :
       /\ i < j
       /\ deleted[i] = 1
       /\ \E k \in 1..Len(emitted) : emitted[k].seq = i
       /\ deleted[j] = 1
       /\ \A k \in 1..Len(emitted) : emitted[k].seq # j

\* C38: destroying a controller or engine that has an active session stops
\* the session first, and no callback runs after the destruction has
\* completed.
C38_SilentAfterDestroy ==
  [][lastOp = "Destroy" => calls' = calls]_vars

\* C40: every int16 sample the quantizer produces lies in [-32767, 32767]:
\* -32768 is never emitted, whether the source is float32, 16-bit, 24-bit or
\* 32-bit PCM, so a 16-bit source holding -32768 is not passed through
\* unchanged.
C40_QuantizerRange ==
  /\ \A i \in 1..Len(lastBuffer.pcm) :
       /\ lastBuffer.pcm[i] >= -INT16_SCALE
       /\ lastBuffer.pcm[i] <= INT16_SCALE
  /\ (tpc = "ReleaseBuffer" /\ ~IsFloatFormat(mixFormat)
        /\ mixFormat.wBitsPerSample = 16 /\ ~lastPacket.silent)
       => \A i \in 1..Len(lastBuffer.pcm) :
            lastPacket.pData[i] = -32768 => lastBuffer.pcm[i] # lastPacket.pData[i]

\* a packet of a 16-bit endpoint holding the samples -32768 and 32767 was
\* converted to -32767 and 32766
C40_Witness ==
  /\ tpc = "ReleaseBuffer"
  /\ ~IsFloatFormat(mixFormat)
  /\ mixFormat.wBitsPerSample = 16
  /\ ~lastPacket.silent
  /\ \E i, j \in 1..Len(lastBuffer.pcm) :
       /\ lastPacket.pData[i] = -32768
       /\ lastBuffer.pcm[i] = -32767
       /\ lastPacket.pData[j] = 32767
       /\ lastBuffer.pcm[j] = 32766

====
